---- MODULE Spec2Model ----
(***************************************************************************)
(* Model of the api-conver gateway's typed-block (Anthropic /v1/messages)  *)
(* path: the handler dispatch, the non-streaming response translator and   *)
(* the stream reframer streamOpenAIToAnthropic.                            *)
(*                                                                         *)
(* Text that the code inspects character by character (delta content,      *)
(* tool-call argument fragments) is a sequence of one-character strings;   *)
(* text that the code only compares with "" and copies (ids, names, model) *)
(* is a TLA+ string.                                                       *)
(***************************************************************************)
EXTENDS Integers, Sequences, FiniteSets, TLC

(***************************************************************************)
(* Bounds of the model.                                                    *)
(***************************************************************************)
\* number of readSSEData calls one stream may make
MaxReads == 4
\* largest value of the nanosecond clock that id generation reads
MaxClock == 2
\* number of upstream frames the pass-through copy forwards
MaxCopy == 2
\* the iterations each of two concurrent reframers runs at most
MaxPairReads == 2

(***************************************************************************)
(* Strings.                                                                *)
(***************************************************************************)
\* the pointer value nil of a *string
nil == "<nil>"

\* unicode.IsSpace on the characters of the model's alphabet
IsSpace(c) == c \in {" ", "\t", "\n", "\r"}

RECURSIVE TrimLeft(_)
TrimLeft(s) ==
    IF s = <<>> THEN <<>>
    ELSE IF IsSpace(Head(s)) THEN TrimLeft(Tail(s)) ELSE s

RECURSIVE TrimRight(_)
TrimRight(s) ==
    IF s = <<>> THEN <<>>
    ELSE IF IsSpace(s[Len(s)]) THEN TrimRight(SubSeq(s, 1, Len(s) - 1)) ELSE s

\* strings.TrimSpace
TrimSpace(s) == TrimRight(TrimLeft(s))

(***************************************************************************)
(* Upstream chunks (OpenAIStreamResponse) the model feeds to the reframer. *)
(***************************************************************************)
NoUsage == [present |-> FALSE, prompt_tokens |-> 0, completion_tokens |-> 0]

SomeUsage == [present |-> TRUE, prompt_tokens |-> 5, completion_tokens |-> 7]

Call(i, id, name, args) ==
    [index |-> i, id |-> id, name |-> name, arguments |-> args]

Choice(finish, content, calls) ==
    [finish_reason |-> finish, content |-> content, tool_calls |-> calls]

Chunk(id, model, usage, choices) ==
    [id |-> id, model |-> model, usage |-> usage, choices |-> choices]

TextChunks ==
    { Chunk("x", "m", NoUsage, << Choice(nil, <<"H", "i">>, <<>>) >>),
      Chunk("", "", NoUsage,
            << Choice("stop", <<" ", "t", "h", "e", "r", "e">>, <<>>) >>) }

ToolChunks ==
    { Chunk("", "", NoUsage,
            << Choice(nil, <<>>, << Call(0, "c1", "f", <<>>) >>) >>),
      Chunk("", "", NoUsage,
            << Choice(nil, <<>>, << Call(0, "", "", <<"{", "a">>) >>) >>),
      Chunk("", "", NoUsage,
            << Choice(nil, <<>>, << Call(1, "", "g", <<"}", " ">>) >>) >>),
      Chunk("", "", NoUsage,
            << Choice(nil, <<>>, << Call(1, "", "g", <<>>),
                                     Call(0, "", "f", <<>>) >>) >>) }

FinishChunks ==
    { Chunk("", "", SomeUsage, << Choice("length", <<>>, <<>>) >>),
      Chunk("", "", NoUsage, << Choice("content_filter", <<>>, <<>>) >>) }

Chunks == TextChunks \cup ToolChunks \cup FinishChunks

NoChunk == Chunk("", "", NoUsage, <<>>)

(***************************************************************************)
(* The upstream body is a sequence of frames.  A frame is what one call of *)
(* readSSEData consumes: the payloads of its "data:" lines (other lines    *)
(* are ignored by readSSEData) and the way it ends: a blank line, the end  *)
(* of the body, or a read error (the request was cancelled).               *)
(***************************************************************************)
\* payload of one "data:" line, after TrimSpace
EmptyData == [kind |-> "empty", chunk |-> NoChunk]
DoneData == [kind |-> "done", chunk |-> NoChunk]
BadData == [kind |-> "bad", chunk |-> NoChunk]
JSONData(c) == [kind |-> "json", chunk |-> c]

DataLines == {EmptyData, DoneData, BadData} \cup { JSONData(c) : c \in Chunks }

Terminators == {"blank", "EOF", "error"}

Frames ==
    [ lines : { <<>> } \cup { <<d>> : d \in DataLines }
                \cup { <<d, e>> : d \in {DoneData} \cup { JSONData(c) : c \in TextChunks },
                                  e \in {EmptyData, BadData} },
      term : Terminators ]

(***************************************************************************)
(* readSSEData.                                                            *)
(***************************************************************************)
\* strings.Join(dataLines, "\n"), classified the way the caller inspects it:
\* no line gives "", one line gives its payload; two or more lines give a
\* text holding "\n", which is neither "" nor "[DONE]" and which
\* json.Unmarshal accepts only when it is one JSON value surrounded by
\* white space, that is when exactly one line is JSON and the others are empty
JoinDataLines(lines) ==
    IF lines = <<>> THEN EmptyData
    ELSE IF Len(lines) = 1 THEN lines[1]
    ELSE LET json == { i \in 1..Len(lines) : lines[i].kind = "json" }
             rest == { i \in 1..Len(lines) : lines[i].kind \notin {"json", "empty"} }
         IN IF Cardinality(json) = 1 /\ rest = {}
            THEN lines[CHOOSE i \in json : TRUE]
            ELSE BadData

\* the (data, err) pair readSSEData returns for one frame of the body
readSSEData(frame) ==
    CASE frame.term = "error" -> [data |-> EmptyData, err |-> "error"]
      [] frame.term = "blank" -> [data |-> JoinDataLines(frame.lines), err |-> "nil"]
      [] frame.term = "EOF" -> [data |-> JoinDataLines(frame.lines), err |-> "EOF"]

(***************************************************************************)
(* Events written to the caller (writeAnthropicEvent).                     *)
(***************************************************************************)
BlankEvent ==
    [event |-> "", index |-> -1, type |-> "", id |-> "", name |-> "",
     model |-> "", text |-> <<>>, stop_reason |-> "",
     input_tokens |-> -1, output_tokens |-> -1, raw |-> <<>>]

MessageStart(id, model) ==
    [BlankEvent EXCEPT !.event = "message_start", !.id = id, !.model = model,
                       !.input_tokens = 0, !.output_tokens = 0]

TextBlockStart(index) ==
    [BlankEvent EXCEPT !.event = "content_block_start", !.index = index,
                       !.type = "text"]

TextDelta(index, text) ==
    [BlankEvent EXCEPT !.event = "content_block_delta", !.index = index,
                       !.type = "text_delta", !.text = text]

ToolBlockStart(index, id, name) ==
    [BlankEvent EXCEPT !.event = "content_block_start", !.index = index,
                       !.type = "tool_use", !.id = id, !.name = name]

InputJSONDelta(index, args) ==
    [BlankEvent EXCEPT !.event = "content_block_delta", !.index = index,
                       !.type = "input_json_delta", !.text = args]

BlockStop(index) ==
    [BlankEvent EXCEPT !.event = "content_block_stop", !.index = index]

\* input_tokens is written only when promptTokens > 0 (-1 stands for absent)
MessageDelta(stopReason, promptTokens, completionTokens) ==
    [BlankEvent EXCEPT !.event = "message_delta", !.stop_reason = stopReason,
                       !.input_tokens = IF promptTokens > 0 THEN promptTokens ELSE -1,
                       !.output_tokens = completionTokens]

MessageStop == [BlankEvent EXCEPT !.event = "message_stop"]

(***************************************************************************)
(* Stop reason and id generation.                                          *)
(***************************************************************************)
\* MapStopReason with a slip: "length" yields to the tool calls
MapStopReason_ToolCallsFirst(finish, hasToolCalls) ==
    CASE finish = "stop" -> "end_turn"
      [] finish \in {"tool_calls", "function_call"} -> "tool_use"
      [] finish = "length" /\ ~hasToolCalls -> "max_tokens"
      [] OTHER -> IF hasToolCalls THEN "tool_use" ELSE "end_turn"

MapStopReason(finish, hasToolCalls) ==
    CASE finish = "length" -> "max_tokens"
      [] finish = "stop" -> "end_turn"
      [] finish \in {"tool_calls", "function_call"} -> "tool_use"
      [] OTHER -> IF hasToolCalls THEN "tool_use" ELSE "end_turn"

\* "call_" + strconv.FormatInt(time.Now().UnixNano(), 10)
generateToolCallID(t) == "call_" \o ToString(t)

\* "msg_" + strconv.FormatInt(time.Now().UnixNano(), 10)
generateMessageID(t) == "msg_" \o ToString(t)

(***************************************************************************)
(* The stream reframer, streamOpenAIToAnthropic.  A machine m holds the    *)
(* function's locals (state, lastFinishReason, hasToolCalls), what it has  *)
(* written so far (w), the clock (now) and, in ticks, by how much the      *)
(* clock advances before each of the next readings of time.Now().          *)
(***************************************************************************)
\* state := &anthropicStreamState{textBlockIndex: -1, nextBlockIndex: 0, ...}
InitialStreamState ==
    [messageID |-> "", model |-> "", started |-> FALSE,
     textBlockIndex |-> -1, nextBlockIndex |-> 0, textBlockStarted |-> FALSE,
     toolBlocks |-> << >>, promptTokens |-> 0, completionTokens |-> 0]

\* time.Now().UnixNano(): the clock after the next advance
ReadClock(m) ==
    [m EXCEPT !.now = IF @ + Head(m.ticks) <= MaxClock THEN @ + Head(m.ticks) ELSE @,
              !.ticks = Tail(@)]

\* StartMessage with a slip: the request's model is announced, not the chunk's
StartMessage_RequestModel(m, chunk, fallbackModel) ==
    IF m.state.started THEN m
    ELSE LET m1 == IF chunk.id = "" THEN ReadClock(m) ELSE m
             id == IF chunk.id = "" THEN generateMessageID(m1.now) ELSE chunk.id
         IN [m1 EXCEPT !.state.messageID = id,
                       !.state.model = fallbackModel,
                       !.state.started = TRUE,
                       !.w = Append(@, MessageStart(id, fallbackModel))]

\* lines 915-942: the first parsed chunk starts the message
StartMessage(m, chunk, fallbackModel) ==
    IF m.state.started THEN m
    ELSE LET m1 == IF chunk.id = "" THEN ReadClock(m) ELSE m
             id == IF chunk.id = "" THEN generateMessageID(m1.now) ELSE chunk.id
             model == IF chunk.model = "" THEN fallbackModel ELSE chunk.model
         IN [m1 EXCEPT !.state.messageID = id,
                       !.state.model = model,
                       !.state.started = TRUE,
                       !.w = Append(@, MessageStart(id, model))]

\* lines 944-947
StoreUsage(m, chunk) ==
    IF chunk.usage.present
    THEN [m EXCEPT !.state.promptTokens = chunk.usage.prompt_tokens,
                   !.state.completionTokens = chunk.usage.completion_tokens]
    ELSE m

\* TextDeltaStep with a slip: the counter is not advanced past the text block
TextDeltaStep_CounterKept(m, content) ==
    IF content = <<>> THEN m
    ELSE LET m1 == IF m.state.textBlockStarted THEN m
                   ELSE [m EXCEPT !.state.textBlockIndex = m.state.nextBlockIndex,
                                  !.state.textBlockStarted = TRUE,
                                  !.w = Append(@, TextBlockStart(m.state.nextBlockIndex))]
         IN [m1 EXCEPT !.w = Append(@, TextDelta(m1.state.textBlockIndex, content))]

\* lines 954-977: a non-empty text delta
TextDeltaStep(m, content) ==
    IF content = <<>> THEN m
    ELSE LET m1 == IF m.state.textBlockStarted THEN m
                   ELSE [m EXCEPT !.state.textBlockIndex = m.state.nextBlockIndex,
                                  !.state.nextBlockIndex = @ + 1,
                                  !.state.textBlockStarted = TRUE,
                                  !.w = Append(@, TextBlockStart(m.state.nextBlockIndex))]
         IN [m1 EXCEPT !.w = Append(@, TextDelta(m1.state.textBlockIndex, content))]

\* ToolCallStep with a slip: block.started is never set
ToolCallStep_StartedNotSet(m, call) ==
    LET ok == call.index \in DOMAIN m.state.toolBlocks
        m1 == IF ~ok /\ call.id = "" THEN ReadClock(m) ELSE m
        block == [index |-> m.state.nextBlockIndex,
                  id |-> IF call.id = "" THEN generateToolCallID(m1.now) ELSE call.id,
                  name |-> call.name,
                  arguments |-> <<>>,
                  started |-> FALSE,
                  finished |-> FALSE,
                  openAIIndex |-> call.index]
        m2 == IF ok THEN m1
              ELSE [m1 EXCEPT !.state.toolBlocks = (call.index :> block) @@ @,
                              !.state.nextBlockIndex = @ + 1]
        b0 == m2.state.toolBlocks[call.index]
        b1 == [b0 EXCEPT !.name = IF call.name # "" THEN call.name ELSE @,
                         !.arguments = IF call.arguments # <<>>
                                       THEN @ \o call.arguments ELSE @]
    IN [m2 EXCEPT !.hasToolCalls = TRUE,
                  !.state.toolBlocks[call.index] = b1,
                  !.w = Append(@, ToolBlockStart(b1.index, b1.id, b1.name))]

\* lines 980-1013: one tool-call fragment
ToolCallStep(m, call) ==
    LET ok == call.index \in DOMAIN m.state.toolBlocks
        m1 == IF ~ok /\ call.id = "" THEN ReadClock(m) ELSE m
        block == [index |-> m.state.nextBlockIndex,
                  id |-> IF call.id = "" THEN generateToolCallID(m1.now) ELSE call.id,
                  name |-> call.name,
                  arguments |-> <<>>,
                  started |-> FALSE,
                  finished |-> FALSE,
                  openAIIndex |-> call.index]
        m2 == IF ok THEN m1
              ELSE [m1 EXCEPT !.state.toolBlocks = (call.index :> block) @@ @,
                              !.state.nextBlockIndex = @ + 1]
        b0 == m2.state.toolBlocks[call.index]
        b1 == [b0 EXCEPT !.name = IF call.name # "" THEN call.name ELSE @,
                         !.arguments = IF call.arguments # <<>>
                                       THEN @ \o call.arguments ELSE @]
    IN [m2 EXCEPT !.hasToolCalls = TRUE,
                  !.state.toolBlocks[call.index] = [b1 EXCEPT !.started = TRUE],
                  !.w = IF b1.started THEN @
                        ELSE Append(@, ToolBlockStart(b1.index, b1.id, b1.name))]

RECURSIVE ToolCallSteps(_, _)
ToolCallSteps(m, calls) ==
    IF calls = <<>> THEN m
    ELSE ToolCallSteps(ToolCallStep(m, Head(calls)), Tail(calls))

\* lines 949-1015: the loop over chunk.Choices
RECURSIVE ChoiceSteps(_, _)
ChoiceSteps(m, choices) ==
    IF choices = <<>> THEN m
    ELSE LET choice == Head(choices)
             m1 == IF choice.finish_reason # nil
                   THEN [m EXCEPT !.lastFinishReason = choice.finish_reason]
                   ELSE m
             m2 == TextDeltaStep(m1, choice.content)
             m3 == ToolCallSteps(m2, choice.tool_calls)
         IN ChoiceSteps(m3, Tail(choices))

\* lines 915-1015: one parsed chunk
ProcessChunk(m, chunk, fallbackModel) ==
    ChoiceSteps(StoreUsage(StartMessage(m, chunk, fallbackModel), chunk),
                chunk.choices)

\* CloseToolBlock with a slip: the block is stopped before its buffered
\* arguments are written
CloseToolBlock_StopFirst(m, key) ==
    LET block == m.state.toolBlocks[key]
        args == TrimSpace(block.arguments)
        w1 == IF block.started /\ ~block.finished
              THEN Append(m.w, BlockStop(block.index))
              ELSE m.w
    IN [m EXCEPT !.w = IF block.started /\ args # <<>>
                       THEN Append(w1, InputJSONDelta(block.index, args))
                       ELSE w1,
                 !.state.toolBlocks[key].finished = block.started]

\* lines 1028-1047: the body of the closing loop for one tool block
CloseToolBlock(m, key) ==
    LET block == m.state.toolBlocks[key]
        args == TrimSpace(block.arguments)
        w1 == IF block.started /\ args # <<>>
              THEN Append(m.w, InputJSONDelta(block.index, args))
              ELSE m.w
    IN IF block.started /\ ~block.finished
       THEN [m EXCEPT !.w = Append(w1, BlockStop(block.index)),
                      !.state.toolBlocks[key].finished = TRUE]
       ELSE [m EXCEPT !.w = w1]

RECURSIVE CloseToolBlocks(_, _)
\* CloseToolBlocks with a slip: the range stops after the first tool block
CloseToolBlocks_FirstOnly(m, order) ==
    IF order = <<>> THEN m
    ELSE CloseToolBlock(m, Head(order))

\* lines 1027-1048: the range over state.toolBlocks
CloseToolBlocks(m, order) ==
    IF order = <<>> THEN m
    ELSE CloseToolBlocks(CloseToolBlock(m, Head(order)), Tail(order))

\* Closing with a slip: message_delta is written before the tool blocks are
\* closed
Closing_DeltaBeforeToolBlocks(m, order) ==
    LET m1 == IF m.state.textBlockStarted
              THEN [m EXCEPT !.w = Append(@, BlockStop(m.state.textBlockIndex))]
              ELSE m
        m2 == IF m1.lastFinishReason # nil
              THEN [m1 EXCEPT !.w = Append(@,
                        MessageDelta(MapStopReason(m1.lastFinishReason, m1.hasToolCalls),
                                     m1.state.promptTokens, m1.state.completionTokens))]
              ELSE m1
        m3 == CloseToolBlocks(m2, order)
    IN [m3 EXCEPT !.w = Append(@, MessageStop)]

\* lines 1021-1070: the closing phase; order is the order in which the range
\* over the map state.toolBlocks visits its keys
Closing(m, order) ==
    LET m1 == IF m.state.textBlockStarted
              THEN [m EXCEPT !.w = Append(@, BlockStop(m.state.textBlockIndex))]
              ELSE m
        m2 == CloseToolBlocks(m1, order)
        m3 == IF m2.lastFinishReason # nil
              THEN [m2 EXCEPT !.w = Append(@,
                        MessageDelta(MapStopReason(m2.lastFinishReason, m2.hasToolCalls),
                                     m2.state.promptTokens, m2.state.completionTokens))]
              ELSE m2
    IN [m3 EXCEPT !.w = Append(@, MessageStop)]

\* the orders in which a range over a Go map may visit the keys
Orders(keys) ==
    { o \in [1..Cardinality(keys) -> keys] :
        \A i, j \in 1..Cardinality(keys) : i # j => o[i] # o[j] }

(***************************************************************************)
(* The non-streaming response translator.                                  *)
(***************************************************************************)
RECURSIVE Join(_, _)
\* strings.Join
Join(parts, sep) ==
    IF parts = <<>> THEN <<>>
    ELSE IF Len(parts) = 1 THEN parts[1]
    ELSE parts[1] \o sep \o Join(Tail(parts), sep)

\* message.Content is nil, a string or an array of blocks
NilContent == [kind |-> "nil", text |-> <<>>, parts |-> <<>>]
StringContent(s) == [kind |-> "string", text |-> s, parts |-> <<>>]
ArrayContent(parts) == [kind |-> "array", text |-> <<>>, parts |-> parts]

RECURSIVE TextPartsOf(_)
\* the loop of OpenAIContentToString over an array content
TextPartsOf(parts) ==
    IF parts = <<>> THEN <<>>
    ELSE LET item == Head(parts)
         IN IF item.type = "text" /\ TrimSpace(item.text) # <<>>
            THEN <<item.text>> \o TextPartsOf(Tail(parts))
            ELSE TextPartsOf(Tail(parts))

\* OpenAIContentToString with a slip: a string content is trimmed
OpenAIContentToString_Trimmed(content) ==
    CASE content.kind = "nil" -> <<>>
      [] content.kind = "string" -> TrimSpace(content.text)
      [] content.kind = "array" -> Join(TextPartsOf(content.parts), <<"\n">>)

OpenAIContentToString(content) ==
    CASE content.kind = "nil" -> <<>>
      [] content.kind = "string" -> content.text
      [] content.kind = "array" -> Join(TextPartsOf(content.parts), <<"\n">>)

\* the texts of the model's alphabet that json.Unmarshal accepts
JSONTexts == { <<"{", "}">>, <<"7">> }

\* a decoded JSON value is named by its text without surrounding white space;
\* the fallback object {"arguments": raw} keeps the raw text
JSONValue(text) == [kind |-> "json", text |-> text]
WrappedArguments(raw) == [kind |-> "wrapped", text |-> raw]
NoInput == [kind |-> "none", text |-> <<>>]

ParseToolCallArgs(args) ==
    IF TrimSpace(args) = <<>> THEN JSONValue(<<"{", "}">>)
    ELSE IF TrimSpace(args) \in JSONTexts THEN JSONValue(TrimSpace(args))
    ELSE WrappedArguments(args)

TextBlock(text) ==
    [type |-> "text", text |-> text, id |-> "", name |-> "", input |-> NoInput]

ToolUseBlock(id, name, input) ==
    [type |-> "tool_use", text |-> <<>>, id |-> id, name |-> name, input |-> input]

\* a *OpenAIFunctionCall that is nil
NoFunctionCall == [present |-> FALSE, name |-> "", arguments |-> <<>>]
FunctionCall(name, args) == [present |-> TRUE, name |-> name, arguments |-> args]

\* names and ids are TrimSpace'd by the translator: the model's names and ids
\* are "" or hold no white space, except the blank name " "
TrimName(name) == IF name = " " THEN "" ELSE name

\* lines 286-301 of converter.go: one element of message.ToolCalls; b holds
\* the blocks built so far and the clock
ToolCallBlock(b, call) ==
    LET name == TrimName(call.name)
        id == TrimName(call.id)
        b1 == IF id = "" THEN ReadClock(b) ELSE b
    IN IF name = "" /\ TrimSpace(call.arguments) = <<>> THEN b
       ELSE [b1 EXCEPT !.blocks = Append(@,
                ToolUseBlock(IF id = "" THEN generateToolCallID(b1.now) ELSE id,
                             name, ParseToolCallArgs(call.arguments)))]

RECURSIVE ToolCallBlocks(_, _)
ToolCallBlocks(b, calls) ==
    IF calls = <<>> THEN b
    ELSE ToolCallBlocks(ToolCallBlock(b, Head(calls)), Tail(calls))

\* lines 303-313 of converter.go: the legacy function_call field
FunctionCallBlock(b, fc) ==
    IF fc.present /\ (TrimName(fc.name) # "" \/ TrimSpace(fc.arguments) # <<>>)
    THEN LET b1 == ReadClock(b)
         IN [b1 EXCEPT !.blocks = Append(@,
                ToolUseBlock(generateToolCallID(b1.now), TrimName(fc.name),
                             ParseToolCallArgs(fc.arguments)))]
    ELSE b

\* BuildAnthropicContentBlocks with a slip: the legacy function_call is
\* looked at before the tool calls
BuildAnthropicContentBlocks_FunctionCallFirst(message, clock, ticks) ==
    LET text == OpenAIContentToString(message.content)
        b0 == [blocks |-> IF TrimSpace(text) # <<>> THEN << TextBlock(text) >> ELSE <<>>,
               now |-> clock, ticks |-> ticks]
        b1 == FunctionCallBlock(b0, message.function_call)
        b2 == ToolCallBlocks(b1, message.tool_calls)
    IN IF b2.blocks = <<>> THEN [b2 EXCEPT !.blocks = << TextBlock(<<>>) >>] ELSE b2

\* message is never nil here: the handler rejects a nil message before the call
BuildAnthropicContentBlocks(message, clock, ticks) ==
    LET text == OpenAIContentToString(message.content)
        b0 == [blocks |-> IF TrimSpace(text) # <<>> THEN << TextBlock(text) >> ELSE <<>>,
               now |-> clock, ticks |-> ticks]
        b1 == ToolCallBlocks(b0, message.tool_calls)
        b2 == FunctionCallBlock(b1, message.function_call)
    IN IF b2.blocks = <<>> THEN [b2 EXCEPT !.blocks = << TextBlock(<<>>) >>] ELSE b2

(***************************************************************************)
(* Upstream replies to a non-streaming call.                               *)
(***************************************************************************)
ToolCall(id, name, args) == [id |-> id, name |-> name, arguments |-> args]

Message(content, calls, fc) ==
    [present |-> TRUE, content |-> content, tool_calls |-> calls, function_call |-> fc]

\* a nil *OpenAIMessage
NoMessage ==
    [present |-> FALSE, content |-> NilContent, tool_calls |-> <<>>,
     function_call |-> NoFunctionCall]

Messages ==
    { Message(StringContent(<<"h", "i">>), <<>>, NoFunctionCall),
      Message(NilContent, << ToolCall("c1", "f", <<"{", "}">>) >>, NoFunctionCall),
      Message(NilContent, << ToolCall("", "", <<>>) >>, NoFunctionCall),
      Message(StringContent(<<" ">>), <<>>, FunctionCall("", <<>>)),
      Message(NilContent, <<>>, FunctionCall("f", <<"{", "a">>)),
      Message(StringContent(<<"h", "i">>),
              << ToolCall("", "", <<" ">>), ToolCall("c1", "f", <<"{", "}">>) >>,
              FunctionCall("h", <<>>)),
      Message(NilContent, << ToolCall("c2", "g", <<" ">>),
                             ToolCall("c3", "g", <<"a", "\"", "\n">>) >>,
              NoFunctionCall),
      Message(ArrayContent(<< [type |-> "text", text |-> <<"a">>],
                              [type |-> "image", text |-> <<"x">>],
                              [type |-> "text", text |-> <<"b">>] >>),
              << ToolCall("", "g", <<"7">>), ToolCall("", " ", <<"{", "a">>) >>,
              NoFunctionCall) }

\* finish reasons of a completed response ("" when the field is absent)
FinishReasons == {"stop", "length", "tool_calls", "function_call", "content_filter", ""}

ResponseChoice(message, finish) == [message |-> message, finish_reason |-> finish]

Response(id, model, choices) ==
    [id |-> id, model |-> model, choices |-> choices,
     prompt_tokens |-> 5, completion_tokens |-> 7]

Responses ==
    { Response("r1", "m", <<>>),
      Response("r1", "m", << ResponseChoice(NoMessage, "stop") >>) }
    \cup { Response(h[1], h[2], << ResponseChoice(msg, f) >>) :
             h \in { <<"r1", "m">>, <<"", "">> }, msg \in Messages, f \in FinishReasons }

NoResponse == Response("", "", <<>>)

\* what the upstream call returns: a transport error, or a status with a body
\* that json.Unmarshal accepts (valid) or not
Reply(err, code, valid, body) ==
    [err |-> err, status |-> code, valid |-> valid, body |-> body]

Replies ==
    { Reply(TRUE, 0, FALSE, NoResponse),
      Reply(FALSE, 500, FALSE, NoResponse),
      Reply(FALSE, 429, TRUE, Response("e429", "", <<>>)),
      Reply(FALSE, 200, FALSE, NoResponse) }
    \cup { Reply(FALSE, 200, TRUE, r) : r \in Responses }

\* no upstream call has returned yet
NoReply == Reply(FALSE, 0, FALSE, NoResponse)

\* a streaming call returns a transport error or a status and an open body
StreamReplies ==
    { Reply(TRUE, 0, FALSE, NoResponse),
      Reply(FALSE, 500, FALSE, NoResponse),
      Reply(FALSE, 200, TRUE, NoResponse) }

(***************************************************************************)
(* The request translator: typed-block messages to flat messages.          *)
(***************************************************************************)
RECURSIVE EscapeJSON(_)
\* json.Marshal of the characters of a string: of the characters of the
\* model's texts it escapes the quote, the backslash and the control
\* characters
EscapeJSON(s) ==
    IF s = <<>> THEN <<>>
    ELSE LET c == Head(s)
         IN (CASE c = "\"" -> <<"\\", "\"">>
               [] c = "\\" -> <<"\\", "\\">>
               [] c = "\n" -> <<"\\", "n">>
               [] c = "\r" -> <<"\\", "r">>
               [] c = "\t" -> <<"\\", "t">>
               [] OTHER -> <<c>>) \o EscapeJSON(Tail(s))

\* QuoteJSON with a slip: the characters are written as they are
QuoteJSON_Unescaped(s) == <<"\"">> \o s \o <<"\"">>

\* json.Marshal of a string
QuoteJSON(s) == <<"\"">> \o EscapeJSON(s) \o <<"\"">>

\* the member name of the fallback object and its colon
ArgumentsKey == <<"\"", "a", "r", "g", "u", "m", "e", "n", "t", "s", "\"", ":">>

\* json.Marshal of a decoded value: a value decoded from a JSON text is
\* written as that text, the fallback object as {"arguments":"..."}
MarshalJSON(value) ==
    IF value.kind = "wrapped"
    THEN <<"{">> \o ArgumentsKey \o QuoteJSON(value.text) \o <<"}">>
    ELSE value.text

\* a content block of a request: the members of the JSON object that the
\* translator reads (a member that is absent reads as "" or nil)
Block(type, text, id, name, input, toolUseID, content) ==
    [type |-> type, text |-> text, id |-> id, name |-> name, input |-> input,
     tool_use_id |-> toolUseID, content |-> content]

TextPart(text) == Block("text", text, "", "", NoInput, "", NilContent)
ToolUsePart(id, name, input) == Block("tool_use", <<>>, id, name, input, "", NilContent)
ToolResultPart(toolUseID, content) ==
    Block("tool_result", <<>>, "", "", NoInput, toolUseID, content)
ImagePart(text) == Block("image", text, "", "", NoInput, "", NilContent)

\* a content that is one JSON object, and one that is neither nil, a string,
\* an array nor an object (a number, named by its JSON text)
MapContent(block) == [kind |-> "map", text |-> <<>>, parts |-> <<block>>]
OtherContent(text) == [kind |-> "json", text |-> text, parts |-> <<>>]

\* one element of the flat message list; tool_calls is empty and
\* tool_call_id is "" where the map has no such key
FlatMessage(role, content, calls, toolCallID) ==
    [role |-> role, content |-> content, tool_calls |-> calls,
     tool_call_id |-> toolCallID]

StringifyToolResult(content) ==
    CASE content.kind = "nil" -> <<>>
      [] content.kind = "string" -> content.text
      [] OTHER -> MarshalJSON(content)

\* parseAnthropicBlock with a slip: a tool result is put in front of the
\* results collected so far
parseAnthropicBlock_ResultInFront(p, block) ==
    CASE block.type = "text" ->
           IF TrimSpace(block.text) # <<>>
           THEN [p EXCEPT !.textParts = Append(@, block.text)]
           ELSE p
      [] block.type = "tool_use" ->
           LET blank == TrimName(block.id) = ""
               p1 == IF blank THEN ReadClock(p) ELSE p
               id == IF blank THEN generateToolCallID(p1.now) ELSE block.id
               argsBytes == IF block.input = NoInput THEN <<"{", "}">>
                            ELSE MarshalJSON(block.input)
           IN [p1 EXCEPT !.toolCalls = Append(@, ToolCall(id, block.name, argsBytes))]
      [] block.type = "tool_result" ->
           [p EXCEPT !.toolResults =
               << FlatMessage("tool", StringifyToolResult(block.content), <<>>,
                              block.tool_use_id) >> \o @]
      [] OTHER ->
           IF TrimSpace(block.text) # <<>>
           THEN [p EXCEPT !.textParts = Append(@, block.text)]
           ELSE p

\* p holds textParts, toolCalls and toolResults, and the clock
parseAnthropicBlock(p, block) ==
    CASE block.type = "text" ->
           IF TrimSpace(block.text) # <<>>
           THEN [p EXCEPT !.textParts = Append(@, block.text)]
           ELSE p
      [] block.type = "tool_use" ->
           LET blank == TrimName(block.id) = ""
               p1 == IF blank THEN ReadClock(p) ELSE p
               id == IF blank THEN generateToolCallID(p1.now) ELSE block.id
               argsBytes == IF block.input = NoInput THEN <<"{", "}">>
                            ELSE MarshalJSON(block.input)
           IN [p1 EXCEPT !.toolCalls = Append(@, ToolCall(id, block.name, argsBytes))]
      [] block.type = "tool_result" ->
           [p EXCEPT !.toolResults = Append(@,
               FlatMessage("tool", StringifyToolResult(block.content), <<>>,
                           block.tool_use_id))]
      [] OTHER ->
           IF TrimSpace(block.text) # <<>>
           THEN [p EXCEPT !.textParts = Append(@, block.text)]
           ELSE p

RECURSIVE parseAnthropicBlocks(_, _)
\* the loop of ParseAnthropicContent over an array content
parseAnthropicBlocks(p, blocks) ==
    IF blocks = <<>> THEN p
    ELSE parseAnthropicBlocks(parseAnthropicBlock(p, Head(blocks)), Tail(blocks))

RECURSIVE ExtractTextBlocks(_)
\* the loop of ExtractTextParts over an array (lines 162-182): the items of
\* the model's arrays are objects
ExtractTextBlocks(blocks) ==
    IF blocks = <<>> THEN <<>>
    ELSE LET block == Head(blocks)
         IN IF block.type = "text"
            THEN (IF TrimSpace(block.text) # <<>> THEN <<block.text>> ELSE <<>>)
                    \o ExtractTextBlocks(Tail(blocks))
            ELSE (IF TrimSpace(block.text) # <<>> THEN <<block.text>> ELSE <<>>)
                    \o ExtractTextBlocks(Tail(blocks))

ExtractTextParts(v) ==
    CASE v.kind = "nil" -> <<>>
      [] v.kind = "string" -> IF TrimSpace(v.text) = <<>> THEN <<>> ELSE <<v.text>>
      [] v.kind = "array" -> ExtractTextBlocks(v.parts)
      [] v.kind = "map" ->
           IF TrimSpace(v.parts[1].text) # <<>> THEN <<v.parts[1].text>> ELSE <<>>
      [] OTHER -> <<>>

FlattenAnthropicText(v) == Join(ExtractTextParts(v), <<"\n">>)

ParseAnthropicContent(content, clock, ticks) ==
    LET p0 == [textParts |-> <<>>, toolCalls |-> <<>>, toolResults |-> <<>>,
               now |-> clock, ticks |-> ticks]
    IN CASE content.kind = "string" ->
              IF TrimSpace(content.text) # <<>>
              THEN [p0 EXCEPT !.textParts = <<content.text>>]
              ELSE p0
         [] content.kind = "array" -> parseAnthropicBlocks(p0, content.parts)
         [] content.kind = "map" -> parseAnthropicBlock(p0, content.parts[1])
         [] content.kind = "nil" -> p0
         [] OTHER ->
              LET fallback == FlattenAnthropicText(content)
              IN IF TrimSpace(fallback) # <<>>
                 THEN [p0 EXCEPT !.textParts = <<fallback>>]
                 ELSE p0

\* a typed-block message of a request
AnthropicMessage(role, content) == [role |-> role, content |-> content]

\* ConvertAnthropicMessage with a slip: a message without text parts and
\* tool calls yields no main message
ConvertAnthropicMessage_EmptyDropped(msg, clock, ticks) ==
    LET p == ParseAnthropicContent(msg.content, clock, ticks)
        main == IF p.textParts # <<>> \/ p.toolCalls # <<>>
                THEN << FlatMessage(msg.role, Join(p.textParts, <<"\n">>),
                                    p.toolCalls, "") >>
                ELSE <<>>
    IN [messages |-> main \o p.toolResults, now |-> p.now, ticks |-> p.ticks]

ConvertAnthropicMessage(msg, clock, ticks) ==
    LET p == ParseAnthropicContent(msg.content, clock, ticks)
        main == IF p.textParts # <<>> \/ p.toolCalls # <<>>
                THEN << FlatMessage(msg.role, Join(p.textParts, <<"\n">>),
                                    p.toolCalls, "") >>
                ELSE IF p.toolResults = <<>>
                THEN << FlatMessage(msg.role, <<>>, <<>>, "") >>
                ELSE <<>>
    IN [messages |-> main \o p.toolResults, now |-> p.now, ticks |-> p.ticks]

RECURSIVE ConvertMessages(_, _)
\* the loop of ConvertAnthropicToOpenAIMessages (lines 28-34); c holds the
\* flat messages so far and the clock
ConvertMessages(c, messages) ==
    IF messages = <<>> THEN c
    ELSE LET converted == ConvertAnthropicMessage(Head(messages), c.now, c.ticks)
         IN ConvertMessages([messages |-> c.messages \o converted.messages,
                             now |-> converted.now, ticks |-> converted.ticks],
                            Tail(messages))

\* ConvertAnthropicToOpenAIMessages with a slip: the system message is
\* appended after the messages of the list
ConvertAnthropicToOpenAIMessages_SystemLast(system, messages, clock, ticks) ==
    LET sysText == FlattenAnthropicText(system)
        last == IF TrimSpace(sysText) # <<>>
                THEN << FlatMessage("system", sysText, <<>>, "") >>
                ELSE <<>>
        c == ConvertMessages([messages |-> <<>>, now |-> clock, ticks |-> ticks], messages)
    IN [c EXCEPT !.messages = @ \o last]

ConvertAnthropicToOpenAIMessages(system, messages, clock, ticks) ==
    LET sysText == FlattenAnthropicText(system)
        first == IF TrimSpace(sysText) # <<>>
                 THEN << FlatMessage("system", sysText, <<>>, "") >>
                 ELSE <<>>
    IN ConvertMessages([messages |-> first, now |-> clock, ticks |-> ticks], messages)

(***************************************************************************)
(* The optional parameters of a request.                                   *)
(***************************************************************************)
\* a field that is absent (a nil pointer, a nil interface, a missing map
\* key), and one that is present with a value
Unset == [present |-> FALSE, value |-> ""]
Set(v) == [present |-> TRUE, value |-> v]

\* AnthropicToolDefinition; input_schema is Unset or Set to a schema
ToolDefinition(name, description, schema) ==
    [name |-> name, description |-> description, input_schema |-> schema]

RECURSIVE ConvertAnthropicTools(_)
\* ConvertAnthropicTools (lines 215-243): one flat tool per tool with a
\* name, <<>> standing for nil; descriptions are "" or hold no white space,
\* except the blank description " "
ConvertAnthropicTools(tools) ==
    IF tools = <<>> THEN <<>>
    ELSE LET tool == Head(tools)
             name == TrimName(tool.name)
         IN (IF name = "" THEN <<>>
             ELSE << [type |-> "function", name |-> name,
                      description |-> IF TrimName(tool.description) # ""
                                      THEN Set(tool.description) ELSE Unset,
                      parameters |-> tool.input_schema] >>)
               \o ConvertAnthropicTools(Tail(tools))

\* a tool choice: a string, or an object with type and name
StringChoice(v) == [kind |-> "string", value |-> v, type |-> "", name |-> ""]
MapChoice(type, name) == [kind |-> "map", value |-> "", type |-> type, name |-> name]
FunctionChoice(name) == [kind |-> "function", value |-> "", type |-> "function", name |-> name]

ConvertAnthropicToolChoice(choice) ==
    CASE choice.kind = "string" ->
           (CASE choice.value = "any" -> StringChoice("required")
              [] choice.value = "auto" -> StringChoice("auto")
              [] OTHER -> choice)
      [] choice.kind = "map" ->
           IF choice.type = "tool" /\ TrimName(choice.name) # ""
           THEN FunctionChoice(choice.name)
           ELSE choice
      [] OTHER -> choice

\* the optional fields of AnthropicRequest: MaxTokens is an int, Temperature,
\* TopP and TopK are pointers, ToolChoice is an interface
Options(maxTokens, temperature, topP, topK, stop, tools, choice) ==
    [max_tokens |-> maxTokens, temperature |-> temperature, top_p |-> topP,
     top_k |-> topK, stop_sequences |-> stop, tools |-> tools, tool_choice |-> choice]

\* the fields of a body that names none of them
NoOptions == Options(0, Unset, Unset, Unset, <<>>, <<>>, Unset)

\* every parameter given; and parameters given with values that are zero,
\* empty or blank
AllOptions ==
    Options(100, Set(1), Set(1), Set(40), <<"END">>,
            << ToolDefinition("f", "d", Set("schema")), ToolDefinition(" ", "", Unset),
               ToolDefinition("g", " ", Unset) >>,
            Set(StringChoice("any")))

ZeroOptions ==
    Options(0, Set(0), Unset, Set(0), <<>>, << ToolDefinition(" ", "d", Unset) >>,
            Set(MapChoice("tool", "f")))

(***************************************************************************)
(* Two requests served at the same time.  net/http runs each handler in a  *)
(* goroutine of its own, so the iterations of the two reframers interleave *)
(* in any order.  Each reframer f holds the locals of its call of          *)
(* streamOpenAIToAnthropic, what it has written to its caller, and in fed  *)
(* what each of its iterations was given: the read result, the clock at    *)
(* its start and the clock's advances, the order of the map range in the   *)
(* closing phase, and how many iterations of both had run before (seq).    *)
(* The clock is the one thing the two have in common.                      *)
(***************************************************************************)
IdleReframer ==
    [state |-> InitialStreamState, lastFinishReason |-> nil, hasToolCalls |-> FALSE,
     w |-> <<>>, fed |-> <<>>, pc |-> "stream", ret |-> "none"]

(***************************************************************************)
(* Requests.                                                               *)
(***************************************************************************)
\* URL paths are sequences of segments: /v1/messages is <<"v1", "messages">>
MessagesPath == <<"v1", "messages">>
ChatPath == <<"v1", "chat", "completions">>

\* an inbound request: method, path, the bytes of the body (named by a
\* token) and, where the body decodes into AnthropicRequest (parses), the
\* decoded fields; a field of a body that does not decode is the zero value
InboundRequest(method, path, raw, parses, stream, model, system, has, messages) ==
    [method |-> method, path |-> path, raw |-> raw, parses |-> parses,
     stream |-> stream, model |-> model, system |-> system,
     has_messages |-> has, messages |-> messages, options |-> NoOptions]

MessagesRequest(stream, model, system, messages) ==
    InboundRequest("POST", MessagesPath, "json", TRUE, stream, model, system, TRUE, messages)

\* a request whose body is not read as an AnthropicRequest
RawRequest(method, path, raw) ==
    InboundRequest(method, path, raw, FALSE, FALSE, "", NilContent, FALSE, <<>>)

\* argument texts of upstream tool calls: not JSON, not JSON with characters
\* that json.Marshal escapes, blank, and JSON
ArgumentTexts ==
    { <<"{", "a">>, <<"a", "\"", "\n">>, <<" ">>, <<"{", "}">>, <<"7">> }

\* the inputs a client holds for the tool_use blocks it was answered with
ToolInputs == { ParseToolCallArgs(r) : r \in ArgumentTexts }

MessageLists ==
    { << AnthropicMessage("user", StringContent(<<"h", "i">>)) >>,
      << AnthropicMessage("user", NilContent) >>,
      << AnthropicMessage("assistant", ArrayContent(<<>>)) >>,
      << AnthropicMessage("user", StringContent(<<>>)) >>,
      << AnthropicMessage("user", StringContent(<<" ">>)) >>,
      << AnthropicMessage("user", OtherContent(<<"7">>)) >>,
      << AnthropicMessage("user",
            ArrayContent(<< TextPart(<<"a">>), TextPart(<<"b", " ">>) >>)) >>,
      << AnthropicMessage("user",
            ArrayContent(<< TextPart(<<"a">>), TextPart(<<" ">>), TextPart(<<"b">>) >>)) >>,
      << AnthropicMessage("user", MapContent(TextPart(<<"a">>))) >>,
      << AnthropicMessage("user",
            ArrayContent(<< ToolResultPart("t1", StringContent(<<"o", "k">>)),
                            ToolResultPart("t2", NilContent) >>)) >>,
      << AnthropicMessage("user", MapContent(ToolResultPart("t1", OtherContent(<<"7">>)))) >>,
      << AnthropicMessage("user", ArrayContent(<< ImagePart(<<"x">>) >>)) >>,
      << AnthropicMessage("user", ArrayContent(<< ImagePart(<<>>) >>)) >>,
      << AnthropicMessage("user",
            ArrayContent(<< TextPart(<<"a">>), ImagePart(<<"x">>),
                            ToolResultPart("t1", StringContent(<<"o", "k">>)) >>)) >>,
      << AnthropicMessage("assistant",
            ArrayContent(<< TextPart(<<"a">>), ToolUsePart("", "f", NoInput),
                            ToolUsePart("t2", "g", JSONValue(<<"7">>)) >>)),
         AnthropicMessage("user",
            ArrayContent(<< ToolResultPart("t2", StringContent(<<"o", "k">>)),
                            TextPart(<<"b">>) >>)) >> }
    \cup { << AnthropicMessage("assistant",
                 ArrayContent(<< ToolUsePart("t1", "f", input) >>)) >> :
           input \in ToolInputs }

Systems ==
    { NilContent,
      StringContent(<<"s">>),
      StringContent(<<" ">>),
      ArrayContent(<< TextPart(<<"s">>), ImagePart(<<"x">>) >>) }

\* the configured aliases (config.yaml) and the paths of the other requests
Aliases == {"openai"}

RawRequests ==
    { RawRequest("POST", <<"v1", "responses">>, "b1"),
      RawRequest("GET", <<"v1", "models">>, ""),
      RawRequest("POST", <<"v1">>, "b1"),
      RawRequest("POST", <<"openai", "v1", "responses">>, "b1"),
      RawRequest("POST", <<"nope", "v1", "responses">>, "b1"),
      RawRequest("GET", MessagesPath, ""),
      RawRequest("POST", MessagesPath, "bad") }

\* a request to a chat-completions route: the body is passed on after it was
\* decoded (parses) and encoded again
ChatRequest(method, path, raw, parses) ==
    InboundRequest(method, path, raw, parses, FALSE, "", NilContent, FALSE, <<>>)

\* requests to the routes below /:alias, for an alias of the configuration
\* and for one that is not in it, and to the chat-completions routes
AliasRequests ==
    { [MessagesRequest(FALSE, "", NilContent,
                       << AnthropicMessage("user", StringContent(<<"h", "i">>)) >>)
          EXCEPT !.path = <<alias>> \o MessagesPath] : alias \in {"openai", "nope"} }
    \cup { RawRequest("POST", <<alias, "v1">>, "b1") : alias \in {"openai", "nope"} }
    \cup { ChatRequest("POST", <<alias>> \o ChatPath, "b2", TRUE) :
             alias \in {"openai", "nope"} }
    \cup { ChatRequest("POST", ChatPath, "b2", TRUE),
           ChatRequest("POST", ChatPath, "bad", FALSE),
           ChatRequest("GET", ChatPath, "", FALSE) }

\* the requests of the model
Requests ==
    { [MessagesRequest(TRUE, "", NilContent,
                       << AnthropicMessage("user", StringContent(<<"h", "i">>)) >>)
          EXCEPT !.options = AllOptions],
      MessagesRequest(FALSE, "claude", NilContent,
                      << AnthropicMessage("user", StringContent(<<"h", "i">>)) >>),
      [MessagesRequest(FALSE, "claude", NilContent,
                       << AnthropicMessage("user", StringContent(<<"h", "i">>)) >>)
          EXCEPT !.options = AllOptions],
      [MessagesRequest(FALSE, "claude", NilContent,
                       << AnthropicMessage("user", StringContent(<<"h", "i">>)) >>)
          EXCEPT !.options = ZeroOptions],
      [MessagesRequest(FALSE, "", NilContent, <<>>) EXCEPT !.has_messages = FALSE],
      [MessagesRequest(FALSE, "", StringContent(<<"s">>), <<>>)
          EXCEPT !.has_messages = FALSE] }
    \cup { MessagesRequest(FALSE, "", system, messages) :
             system \in Systems, messages \in MessageLists }
    \cup RawRequests
    \cup AliasRequests

(***************************************************************************)
(* State.                                                                  *)
(***************************************************************************)
VARIABLES
    impl,              \* the server: "main" (net/http, part_001) or "usecase" (gin)
    pc,                \* where the handler of the request is
    req,               \* the inbound request
    sent,              \* the call made to the upstream, if any
    upstream,          \* the reply the upstream call returned
    status,            \* the status code written to the caller, 0 before any
    resp,              \* the body written for a non-streaming request
    w,                 \* what has been written to a streaming caller
    state,             \* anthropicStreamState
    lastFinishReason,  \* local of streamOpenAIToAnthropic
    hasToolCalls,      \* local of streamOpenAIToAnthropic
    now,               \* the clock time.Now() reads
    fed,               \* the results of the readSSEData calls so far
    bodyEOF,           \* the upstream body reader has reported io.EOF
    ret,               \* what streamOpenAIToAnthropic returned
    pair               \* two reframers that run at the same time

vars == <<impl, pc, req, sent, upstream, status, resp, w, state, lastFinishReason,
          hasToolCalls, now, fed, bodyEOF, ret, pair>>

streamVars == <<state, lastFinishReason, hasToolCalls, fed, bodyEOF, ret>>

\* getDefaultModel / getEnvFirst(..., "tstars2.0")
DefaultModel == "tstars2.0"

NoBody == [kind |-> "none", error |-> "", upstream |-> NoResponse,
           id |-> "", model |-> "", content |-> <<>>, stop_reason |-> "",
           input_tokens |-> 0, output_tokens |-> 0]

ErrorBody(text) == [NoBody EXCEPT !.kind = "error", !.error = text]

\* the upstream's body, written as it came
UpstreamBody(reply) == [NoBody EXCEPT !.kind = "upstream", !.upstream = reply.body]

\* the JSON object the messages handlers send to /v1/chat/completions
Payload(model, messages, stream) ==
    [model |-> model, messages |-> messages, stream |-> stream,
     stream_options |-> Unset, max_tokens |-> Unset, temperature |-> Unset,
     top_p |-> Unset, top_k |-> Unset, stop |-> Unset, tools |-> Unset,
     tool_choice |-> Unset]

NoPayload == Payload("", <<>>, FALSE)

\* the map openAIReq the messages handlers build (anthropic.go lines 721-743
\* and 798-823, part_001 lines 218-241 and 308-334); main passes top_k on if
\* it is set, the use case has no statement for it
OpenAIRequest(r, messages, stream) ==
    LET o == r.options
        tools == ConvertAnthropicTools(o.tools)
    IN [Payload(r.model, messages, stream) EXCEPT
          !.stream_options = IF stream THEN Set("include_usage") ELSE Unset,
          !.max_tokens = IF o.max_tokens > 0 THEN Set(o.max_tokens) ELSE Unset,
          !.temperature = o.temperature,
          !.top_p = o.top_p,
          !.top_k = IF impl = "main" THEN o.top_k ELSE Unset,
          !.stop = IF o.stop_sequences # <<>> THEN Set(o.stop_sequences) ELSE Unset,
          !.tools = IF tools # <<>> THEN Set(tools) ELSE Unset,
          !.tool_choice = IF o.tool_choice.present
                          THEN Set(ConvertAnthropicToolChoice(o.tool_choice.value))
                          ELSE Unset]

\* a call to the upstream: the alias whose configuration it uses, method,
\* path below the base URL, and the body: bytes passed on (raw) or an
\* encoded payload
UpstreamCall(alias, method, path, raw, payload) ==
    [called |-> TRUE, alias |-> alias, method |-> method, path |-> path,
     raw |-> raw, payload |-> payload]

NoCall ==
    [called |-> FALSE, alias |-> "", method |-> "", path |-> <<>>, raw |-> "",
     payload |-> NoPayload]

Init ==
    /\ impl \in {"main", "usecase"}
    /\ pc = "request"
    /\ req \in Requests
    /\ sent = NoCall
    /\ upstream = NoReply
    /\ status = 0
    /\ resp = NoBody
    /\ w = <<>>
    /\ state = InitialStreamState
    /\ lastFinishReason = nil
    /\ hasToolCalls = FALSE
    /\ now = 0
    /\ fed = <<>>
    /\ bodyEOF = FALSE
    /\ ret = "none"
    /\ pair = [i \in 1..2 |-> IdleReframer]

\* req.Model == "" is replaced by the default model
ResolveModel(r) == [r EXCEPT !.model = IF @ = "" THEN DefaultModel ELSE @]

\* the advances of the clock before each of n readings of time.Now()
TickSeqs(n) == [1..n -> {0, 1}]

(***************************************************************************)
(* Routing.                                                                *)
(***************************************************************************)
\* the http.ServeMux of main: exact patterns, and the subtree pattern "/v1/"
MuxRoute(path) ==
    CASE path = <<"healthz">> -> "healthz"
      [] path = ChatPath -> "handleOpenAI"
      [] path = MessagesPath -> "handleAnthropic"
      [] path # <<>> /\ path[1] = "v1" -> "handleV1Proxy"
      [] OTHER -> "NotFound"

\* the routes router.New registers; a request that matches none goes to the
\* NoRoute handler
GinRoute(method, path) ==
    CASE method = "GET" /\ path = <<"healthz">> -> "HealthHandler.Handle"
      [] method = "POST" /\ path = ChatPath -> "ChatHandler.Handle"
      [] method = "POST" /\ path = MessagesPath -> "MessagesHandler.Handle"
      [] method = "POST" /\ path = <<"v1">> -> "ProxyHandler.Handle"
      [] method = "GET" /\ Len(path) = 2 /\ path[2] = "healthz" ->
           "HealthHandler.HandleAlias"
      [] method = "POST" /\ Len(path) = 4 /\ Tail(path) = ChatPath ->
           "ChatHandler.HandleAlias"
      [] method = "POST" /\ Len(path) = 3 /\ Tail(path) = MessagesPath ->
           "MessagesHandler.HandleAlias"
      [] method = "POST" /\ Len(path) = 2 /\ path[2] = "v1" ->
           "ProxyHandler.HandleAlias"
      [] OTHER -> "HandleAliasFallback"

Route == IF impl = "main" THEN MuxRoute(req.path) ELSE GinRoute(req.method, req.path)

getAliasFromPath(path) == IF path # <<>> /\ path[1] # "" THEN path[1] ELSE ""

IsValidAlias(alias) == alias \in Aliases

\* resolveAlias: the alias given, or the only configured alias
resolveAlias(alias) ==
    IF alias # "" THEN alias
    ELSE IF Cardinality(Aliases) = 1 THEN CHOOSE name \in Aliases : TRUE
    ELSE ""

\* the alias whose upstream a call without alias uses: main reads the base
\* URL from the environment, the use case resolves the alias
UpstreamAlias(alias) == IF impl = "main" THEN "" ELSE resolveAlias(alias)

stripAliasPrefix(path, alias) ==
    IF alias = "" THEN path
    ELSE IF Len(path) >= 2 /\ path[1] = alias THEN Tail(path)
    ELSE IF path = <<alias>> THEN <<>>
    ELSE path

(***************************************************************************)
(* HandleAnthropic, the non-streaming handler (stream=false).              *)
(***************************************************************************)
\* TranslateResponse with a slip: hasToolCalls forgets the legacy function_call
TranslateResponse_ToolCallsOnly(openAIResp, reqModel, clock, ticks) ==
    LET message == openAIResp.choices[1].message
        b == BuildAnthropicContentBlocks(message, clock, ticks)
        toolCalls == message.tool_calls # <<>>
    IN [body |-> [NoBody EXCEPT
                    !.kind = "message",
                    !.id = openAIResp.id,
                    !.model = IF openAIResp.model = "" THEN reqModel ELSE openAIResp.model,
                    !.content = b.blocks,
                    !.stop_reason = MapStopReason(openAIResp.choices[1].finish_reason,
                                                  toolCalls),
                    !.input_tokens = openAIResp.prompt_tokens,
                    !.output_tokens = openAIResp.completion_tokens],
        now |-> b.now]

\* lines 771-786 of anthropic.go (275-290 of part_001)
TranslateResponse(openAIResp, reqModel, clock, ticks) ==
    LET message == openAIResp.choices[1].message
        b == BuildAnthropicContentBlocks(message, clock, ticks)
        toolCalls == message.tool_calls # <<>> \/ message.function_call.present
    IN [body |-> [NoBody EXCEPT
                    !.kind = "message",
                    !.id = openAIResp.id,
                    !.model = IF openAIResp.model = "" THEN reqModel ELSE openAIResp.model,
                    !.content = b.blocks,
                    !.stop_reason = MapStopReason(openAIResp.choices[1].finish_reason,
                                                  toolCalls),
                    !.input_tokens = openAIResp.prompt_tokens,
                    !.output_tokens = openAIResp.completion_tokens],
        now |-> b.now]

\* the status the caller sees for a passed-through upstream reply: main.go
\* writes the upstream's code; the gin handlers call c.Status(statusCode) and
\* then c.Data(http.StatusOK, ...), which sets the code to 200 before the
\* header is written
PassThroughStatus(code) == IF impl = "main" THEN code ELSE 200

\* the handler of /v1/messages was chosen, and the body asks for a stream
\* (main rejects another method than POST before it reads the body)
MessagesRouted ==
    Route \in {"handleAnthropic", "MessagesHandler.Handle", "MessagesHandler.HandleAlias"}

\* the alias the messages handler gives to the use case: HandleAlias gives
\* c.Param("alias"), Handle gives "" for the path /v1/messages
MessagesAlias == IF Route = "MessagesHandler.HandleAlias" THEN req.path[1] ELSE ""

Streams == req.parses /\ req.stream /\ ~(impl = "main" /\ req.method # "POST")

RECURSIVE CountBlocks(_)
CountBlocks(messages) ==
    IF messages = <<>> THEN 0
    ELSE Len(Head(messages).content.parts) + CountBlocks(Tail(messages))

\* how many times translating the request reads the clock
RequestClockReads ==
    LET most == CountBlocks(req.messages)
        zeros == [i \in 1..most |-> 0]
    IN most - Len(ConvertAnthropicToOpenAIMessages(req.system, req.messages, 0, zeros).ticks)

\* NoChoices with a slip: the first choice's message is not looked at
NoChoices_MessageUnchecked(openAIResp) ==
    openAIResp.choices = <<>>

\* lines 765-769 of anthropic.go (267-273 of part_001)
NoChoices(openAIResp) ==
    openAIResp.choices = <<>> \/ ~openAIResp.choices[1].message.present

\* an upstream that answers with a message it was sent: the flat message's
\* content as the content of the response message
EchoReplies(messages) ==
    { Reply(FALSE, 200, TRUE,
            Response("echo", "", << ResponseChoice(
                Message(StringContent(messages[i].content), <<>>, NoFunctionCall),
                "stop") >>)) :
      i \in { j \in DOMAIN messages : /\ messages[j].role \in {"user", "assistant"}
                                      /\ messages[j].tool_calls = <<>> } }

HandleAnthropic ==
    /\ pc = "request"
    /\ MessagesRouted
    /\ ~Streams
    /\ pc' = "done"
    /\ IF impl = "main" /\ req.method # "POST"
       THEN /\ status' = 405
            /\ resp' = ErrorBody("method not allowed")
            /\ UNCHANGED <<req, sent, upstream, now>>
       ELSE IF ~req.parses
       THEN /\ status' = 400
            /\ resp' = ErrorBody("invalid json")
            /\ UNCHANGED <<req, sent, upstream, now>>
       ELSE \E ticks \in TickSeqs(RequestClockReads + 3) :
               LET c == ConvertAnthropicToOpenAIMessages(req.system, req.messages,
                                                         now, ticks)
               IN \E reply \in Replies \cup EchoReplies(c.messages) :
                     /\ req' = ResolveModel(req)
                     /\ sent' = UpstreamCall(UpstreamAlias(MessagesAlias), "POST", ChatPath, "",
                                   OpenAIRequest(ResolveModel(req), c.messages, FALSE))
                     /\ upstream' = reply
                     /\ IF reply.err
                        THEN /\ status' = 502
                             /\ resp' = ErrorBody("upstream call failed")
                             /\ now' = c.now
                        ELSE IF reply.status < 200 \/ reply.status > 299
                        THEN /\ status' = PassThroughStatus(reply.status)
                             /\ resp' = UpstreamBody(reply)
                             /\ now' = c.now
                        ELSE IF ~reply.valid
                        THEN /\ status' = 502
                             /\ resp' = ErrorBody("invalid upstream response")
                             /\ now' = c.now
                        ELSE IF NoChoices(reply.body)
                        THEN /\ status' = 502
                             /\ resp' = ErrorBody("no choices in response")
                             /\ now' = c.now
                        ELSE LET t == TranslateResponse(reply.body,
                                         ResolveModel(req).model, c.now, c.ticks)
                             IN /\ status' = 200
                                /\ resp' = t.body
                                /\ now' = t.now
    /\ UNCHANGED <<pair, impl, w, streamVars>>

(***************************************************************************)
(* handleAnthropicStream, the streaming handler (stream=true).             *)
(***************************************************************************)
HandleAnthropicStream ==
    /\ pc = "request"
    /\ MessagesRouted
    /\ Streams
    /\ \E reply \in StreamReplies, ticks \in TickSeqs(RequestClockReads) :
          LET c == ConvertAnthropicToOpenAIMessages(req.system, req.messages, now, ticks)
          IN /\ req' = ResolveModel(req)
             /\ sent' = UpstreamCall(UpstreamAlias(MessagesAlias), "POST", ChatPath, "",
                           OpenAIRequest(ResolveModel(req), c.messages, TRUE))
             /\ upstream' = reply
             /\ now' = c.now
             /\ IF reply.err
                THEN /\ status' = 502
                     /\ resp' = ErrorBody("upstream call failed")
                     /\ pc' = "done"
                ELSE IF reply.status < 200 \/ reply.status > 299
                THEN /\ status' = reply.status
                     /\ resp' = UpstreamBody(reply)
                     /\ pc' = "done"
                ELSE /\ status' = 200
                     /\ resp' = resp
                     /\ pc' = IF impl = "main" THEN "stream" ELSE "copy"
    /\ UNCHANGED <<pair, impl, w, streamVars>>

(***************************************************************************)
(* The generic proxy: handleV1Proxy of main, and ProxyHandler of the gin   *)
(* server with ProxyUseCase.HandleProxy.                                   *)
(***************************************************************************)
\* what the upstream answers to a proxied call
ProxyReplies ==
    { Reply(TRUE, 0, FALSE, NoResponse),
      Reply(FALSE, 200, TRUE, Response("p1", "", <<>>)),
      Reply(FALSE, 404, TRUE, Response("e404", "", <<>>)) }

\* handleV1Proxy with proxyRequest: body, method and path go on as they came
handleV1Proxy ==
    /\ pc = "request"
    /\ impl = "main"
    /\ Route = "handleV1Proxy"
    /\ pc' = "done"
    /\ \E reply \in ProxyReplies :
          /\ sent' = UpstreamCall("", req.method, req.path, req.raw, NoPayload)
          /\ upstream' = reply
          /\ IF reply.err
             THEN /\ status' = 502
                  /\ resp' = ErrorBody("upstream call failed")
             ELSE /\ status' = reply.status
                  /\ resp' = UpstreamBody(reply)
    /\ UNCHANGED <<pair, impl, req, w, now, streamVars>>

\* the mux of main has no pattern for the path
NotFound ==
    /\ pc = "request"
    /\ impl = "main"
    /\ Route = "NotFound"
    /\ pc' = "done"
    /\ status' = 404
    /\ resp' = ErrorBody("404 page not found")
    /\ UNCHANGED <<pair, impl, req, sent, upstream, w, now, streamVars>>

\* ProxyUseCase.HandleProxy
HandleProxy(alias) ==
    \E reply \in ProxyReplies :
       /\ sent' = UpstreamCall(resolveAlias(alias), req.method,
                               stripAliasPrefix(req.path, alias), req.raw, NoPayload)
       /\ upstream' = reply
       /\ IF reply.err
          THEN /\ status' = 502
               /\ resp' = ErrorBody("upstream call failed")
          ELSE /\ status' = PassThroughStatus(reply.status)
               /\ resp' = UpstreamBody(reply)

\* the answer of the gin handlers to a path whose first segment is no alias
UnknownAlias(alias) ==
    /\ status' = 404
    /\ resp' = IF alias = "healthz" THEN NoBody ELSE ErrorBody("unknown alias")
    /\ UNCHANGED <<sent, upstream>>

\* ProxyHandler.Handle: POST /v1
ProxyHandlerHandle ==
    /\ pc = "request"
    /\ impl = "usecase"
    /\ Route = "ProxyHandler.Handle"
    /\ pc' = "done"
    /\ LET alias == getAliasFromPath(req.path)
       IN IF alias = "" \/ alias = "v1" THEN HandleProxy("")
          ELSE IF ~IsValidAlias(alias) THEN UnknownAlias(alias)
          ELSE HandleProxy(alias)
    /\ UNCHANGED <<pair, impl, req, w, now, streamVars>>

\* ProxyHandler.HandleAliasFallback: the NoRoute handler
HandleAliasFallback ==
    /\ pc = "request"
    /\ impl = "usecase"
    /\ Route = "HandleAliasFallback"
    /\ pc' = "done"
    /\ LET alias == getAliasFromPath(req.path)
       IN IF alias = "" \/ alias = "v1"
          THEN /\ status' = 404
               /\ resp' = NoBody
               /\ UNCHANGED <<sent, upstream>>
          ELSE IF ~IsValidAlias(alias) THEN UnknownAlias(alias)
          ELSE HandleProxy(alias)
    /\ UNCHANGED <<pair, impl, req, w, now, streamVars>>

\* ProxyHandler.HandleAlias: POST /:alias/v1
ProxyHandlerHandleAlias ==
    /\ pc = "request"
    /\ impl = "usecase"
    /\ Route = "ProxyHandler.HandleAlias"
    /\ pc' = "done"
    /\ HandleProxy(req.path[1])
    /\ UNCHANGED <<pair, impl, req, w, now, streamVars>>

\* the chat-completions handlers: handleOpenAI of main; ChatHandler.Handle
\* and ChatHandler.HandleAlias of the gin server with ProxyUseCase.HandleOpenAI.
\* The body goes on encoded again, with model and stream filled in.
HandleOpenAI ==
    /\ pc = "request"
    /\ Route \in {"handleOpenAI", "ChatHandler.Handle", "ChatHandler.HandleAlias"}
    /\ pc' = "done"
    /\ LET alias == IF Route = "ChatHandler.HandleAlias" THEN req.path[1] ELSE ""
       IN IF impl = "main" /\ req.method # "POST"
          THEN /\ status' = 405
               /\ resp' = ErrorBody("method not allowed")
               /\ UNCHANGED <<sent, upstream>>
          ELSE IF ~req.parses
          THEN /\ status' = 400
               /\ resp' = ErrorBody("invalid json")
               /\ UNCHANGED <<sent, upstream>>
          ELSE \E reply \in ProxyReplies :
                  /\ sent' = UpstreamCall(UpstreamAlias(alias), "POST",
                                          stripAliasPrefix(req.path, alias), req.raw,
                                          NoPayload)
                  /\ upstream' = reply
                  /\ IF reply.err
                     THEN /\ status' = 502
                          /\ resp' = ErrorBody("upstream call failed")
                     ELSE /\ status' = PassThroughStatus(reply.status)
                          /\ resp' = UpstreamBody(reply)
    /\ UNCHANGED <<pair, impl, req, w, now, streamVars>>

(***************************************************************************)
(* The pass-through of the gin handler: io.Copy(c.Writer, resp.Body)       *)
(* (anthropic.go lines 848-850) forwards the upstream body as it comes.    *)
(***************************************************************************)
\* the bytes of one upstream frame, forwarded as they are
Raw(lines) == [BlankEvent EXCEPT !.type = "upstream", !.raw = lines]

CopyFrame ==
    /\ pc = "copy"
    /\ Len(w) < MaxCopy
    /\ \E frame \in Frames :
          /\ frame.lines # <<>>
          /\ frame.term = "blank"
          /\ w' = Append(w, Raw(frame.lines))
    /\ UNCHANGED <<pair, impl, pc, req, sent, upstream, status, resp, now, streamVars>>

\* the upstream body ends, or reading it fails
CopyEnd ==
    /\ pc = "copy"
    /\ pc' = "done"
    /\ UNCHANGED <<pair, impl, req, sent, upstream, status, resp, w, now, streamVars>>

(***************************************************************************)
(* streamOpenAIToAnthropic: one action per way an iteration of its loop    *)
(* (lines 888-1019) can go; an iteration that leaves the loop by break     *)
(* goes on with the closing phase (lines 1021-1070).                       *)
(***************************************************************************)
\* the frames the upstream body can deliver next: once the reader has
\* reported io.EOF it has nothing more
AvailableFrames ==
    IF bodyEOF THEN { [lines |-> <<>>, term |-> "EOF"] } ELSE Frames

\* the (data, err) pairs the next call of readSSEData can return
NextReads == { readSSEData(frame) : frame \in AvailableFrames }

Machine(ticks) ==
    [state |-> state, lastFinishReason |-> lastFinishReason,
     hasToolCalls |-> hasToolCalls, w |-> w, now |-> now, ticks |-> ticks]

Install(m) ==
    /\ state' = m.state
    /\ lastFinishReason' = m.lastFinishReason
    /\ hasToolCalls' = m.hasToolCalls
    /\ w' = m.w
    /\ now' = m.now

Reading == pc = "stream" /\ Len(fed) < MaxReads

RECURSIVE CountCalls(_)
CountCalls(choices) ==
    IF choices = <<>> THEN 0
    ELSE Len(Head(choices).tool_calls) + CountCalls(Tail(choices))

\* how many times processing the chunk reads the clock in the current state
\* (the value read never decides whether a later reading happens)
ClockReads(chunk) ==
    LET most == 1 + CountCalls(chunk.choices)
        zeros == [i \in 1..most |-> 0]
    IN most - Len(ProcessChunk(Machine(zeros), chunk, req.model).ticks)

\* StreamReadError with a slip: the failed read leaves the loop by break, so
\* that the closing phase runs
StreamReadError_Break ==
    /\ Reading
    /\ \E r \in NextReads :
             /\ r.err = "error"
             /\ fed' = Append(fed, r)
             /\ \E order \in Orders(DOMAIN state.toolBlocks) :
                   Install(Closing(Machine(<<>>), order))
             /\ pc' = "done"
             /\ ret' = "error"
    /\ UNCHANGED <<pair, impl, req, sent, upstream, status, resp, bodyEOF>>

\* lines 890-892: the read fails with an error that is not io.EOF
StreamReadError ==
    /\ Reading
    /\ \E r \in NextReads :
             /\ r.err = "error"
             /\ fed' = Append(fed, r)
             /\ pc' = "done"
             /\ ret' = "error"
    /\ UNCHANGED <<pair, impl, req, sent, upstream, status, resp, w, state, lastFinishReason,
                   hasToolCalls, now, bodyEOF>>

\* lines 893-895: no data and io.EOF
StreamEndOfInput ==
    /\ Reading
    /\ \E r \in NextReads :
             /\ r.err = "EOF"
             /\ r.data.kind = "empty"
             /\ fed' = Append(fed, r)
             /\ pc' = "done"
             /\ ret' = "EOF"
             /\ bodyEOF' = TRUE
    /\ UNCHANGED <<pair, impl, req, sent, upstream, status, resp, w, state, lastFinishReason,
                   hasToolCalls, now>>

\* lines 896-901: no data and no error
StreamEmptyData ==
    /\ Reading
    /\ \E r \in NextReads :
             /\ r.err = "nil"
             /\ r.data.kind = "empty"
             /\ fed' = Append(fed, r)
    /\ UNCHANGED <<pair, impl, pc, req, sent, upstream, status, resp, w, state, lastFinishReason,
                   hasToolCalls, now, bodyEOF, ret>>

\* lines 902-904: the [DONE] marker
StreamDone ==
    /\ Reading
    /\ \E r \in NextReads :
             /\ r.err # "error"
             /\ r.data.kind = "done"
             /\ fed' = Append(fed, r)
             /\ bodyEOF' = (r.err = "EOF")
             /\ \E order \in Orders(DOMAIN state.toolBlocks) :
                   Install(Closing(Machine(<<>>), order))
             /\ pc' = "done"
             /\ ret' = "nil"
    /\ UNCHANGED <<pair, impl, req, sent, upstream, status, resp>>

\* StreamInvalidChunk with a slip: the test errors.Is(err, io.EOF) of line 909
\* sees the error of the read, so that a malformed last chunk ends the call
StreamInvalidChunk_ReadError ==
    /\ Reading
    /\ \E r \in NextReads :
             /\ r.err # "error"
             /\ r.data.kind = "bad"
             /\ fed' = Append(fed, r)
             /\ bodyEOF' = (r.err = "EOF")
             /\ pc' = IF r.err = "EOF" THEN "done" ELSE pc
             /\ ret' = IF r.err = "EOF" THEN "EOF" ELSE ret
    /\ UNCHANGED <<pair, impl, req, sent, upstream, status, resp, w, state, lastFinishReason,
                   hasToolCalls, now>>

\* lines 906-913: json.Unmarshal fails; the error it returns is never io.EOF
StreamInvalidChunk ==
    /\ Reading
    /\ \E r \in NextReads :
             /\ r.err # "error"
             /\ r.data.kind = "bad"
             /\ fed' = Append(fed, r)
             /\ bodyEOF' = (r.err = "EOF")
    /\ UNCHANGED <<pair, impl, pc, req, sent, upstream, status, resp, w, state, lastFinishReason,
                   hasToolCalls, now, ret>>

\* lines 915-1018: a parsed chunk
StreamChunk ==
    /\ Reading
    /\ \E r \in NextReads :
             /\ r.err # "error"
             /\ r.data.kind = "json"
             /\ fed' = Append(fed, r)
             /\ bodyEOF' = (r.err = "EOF")
             /\ \E ticks \in TickSeqs(ClockReads(r.data.chunk)) :
                   LET m == ProcessChunk(Machine(ticks), r.data.chunk, req.model)
                   IN IF r.err = "EOF"
                      THEN /\ \E order \in Orders(DOMAIN m.state.toolBlocks) :
                                 Install(Closing(m, order))
                           /\ pc' = "done"
                           /\ ret' = "nil"
                      ELSE /\ Install(m)
                           /\ pc' = pc
                           /\ ret' = ret
    /\ UNCHANGED <<pair, impl, req, sent, upstream, status, resp>>

Next ==
    \/ HandleAnthropic
    \/ HandleAnthropicStream
    \/ handleV1Proxy
    \/ NotFound
    \/ ProxyHandlerHandle
    \/ HandleAliasFallback
    \/ ProxyHandlerHandleAlias
    \/ HandleOpenAI
    \/ CopyFrame
    \/ CopyEnd
    \/ StreamReadError
    \/ StreamEndOfInput
    \/ StreamEmptyData
    \/ StreamDone
    \/ StreamInvalidChunk
    \/ StreamChunk

Spec == Init /\ [][Next]_vars

(***************************************************************************)
(* The steps of the two concurrent reframers.                              *)
(***************************************************************************)
\* the model names of the two requests
PairModels == <<"claude-1", "claude-2">>

\* what the reads of the two upstream bodies return
PairChunks ==
    { Chunk("x", "m", NoUsage, << Choice(nil, <<"H", "i">>, <<>>) >>),
      Chunk("", "", NoUsage,
            << Choice(nil, <<>>, << Call(0, "", "f", <<"{", "a">>) >>) >>) }

PairReads ==
    { [data |-> JSONData(c), err |-> "nil"] : c \in PairChunks }
    \cup { [data |-> JSONData(Chunk("", "", SomeUsage, << Choice("length", <<>>, <<>>) >>)),
            err |-> "EOF"],
           [data |-> DoneData, err |-> "nil"],
           [data |-> EmptyData, err |-> "EOF"],
           [data |-> EmptyData, err |-> "error"] }

\* the locals of reframer f as a machine
MachineOf(f, clock, ticks) ==
    [state |-> f.state, lastFinishReason |-> f.lastFinishReason,
     hasToolCalls |-> f.hasToolCalls, w |-> f.w, now |-> clock, ticks |-> ticks]

\* reframer f after an iteration that left the machine m; returned is what
\* the call returned, "none" if the loop goes on
After(f, m, returned) ==
    [f EXCEPT !.state = m.state,
              !.lastFinishReason = m.lastFinishReason,
              !.hasToolCalls = m.hasToolCalls,
              !.w = m.w,
              !.pc = IF returned = "none" THEN "stream" ELSE "done",
              !.ret = returned]

\* the iteration given h closes the stream
Closes(h) ==
    h.read.err # "error"
    /\ (h.read.data.kind = "done" \/ (h.read.data.kind = "json" /\ h.read.err = "EOF"))

\* one iteration of the loop of streamOpenAIToAnthropic (lines 888-1019), and
\* the closing phase if the iteration leaves the loop by break
Iteration(f, h, fallbackModel) ==
    LET r == h.read
        m == MachineOf(f, h.now, h.ticks)
        m1 == IF r.err # "error" /\ r.data.kind = "json"
              THEN ProcessChunk(m, r.data.chunk, fallbackModel)
              ELSE m
    IN IF r.err = "error" THEN [f |-> After(f, m, "error"), now |-> h.now]
       ELSE IF r.data.kind = "empty"
       THEN [f |-> After(f, m, IF r.err = "EOF" THEN "EOF" ELSE "none"), now |-> h.now]
       ELSE IF Closes(h)
       THEN [f |-> After(f, Closing(m1, h.order), "nil"), now |-> m1.now]
       ELSE [f |-> After(f, m1, "none"), now |-> m1.now]

\* how many times the iteration of f on r reads the clock
PairClockReads(f, r, fallbackModel) ==
    IF r.err # "error" /\ r.data.kind = "json"
    THEN LET most == 1 + CountCalls(r.data.chunk.choices)
             zeros == [i \in 1..most |-> 0]
         IN most - Len(ProcessChunk(MachineOf(f, 0, zeros), r.data.chunk,
                                    fallbackModel).ticks)
    ELSE 0

\* the orders the closing phase of the iteration may take
PairOrders(f, h, fallbackModel) ==
    IF Closes(h)
    THEN LET m == IF h.read.data.kind = "json"
                  THEN ProcessChunk(MachineOf(f, h.now, h.ticks), h.read.data.chunk,
                                    fallbackModel)
                  ELSE MachineOf(f, h.now, h.ticks)
         IN Orders(DOMAIN m.state.toolBlocks)
    ELSE { <<>> }

\* PairStep with a slip: the counter of block indices is one package-level
\* variable that both reframers advance
PairStep_SharedCounter(i) ==
    /\ pair[i].pc = "stream"
    /\ Len(pair[i].fed) < MaxPairReads
    /\ \E r \in PairReads :
          \E ticks \in TickSeqs(PairClockReads(pair[i], r, PairModels[i])) :
             LET h0 == [read |-> r, now |-> now, ticks |-> ticks, order |-> <<>>,
                        seq |-> Len(pair[1].fed) + Len(pair[2].fed)]
                 shared == pair[1].state.nextBlockIndex + pair[2].state.nextBlockIndex
                 f == [pair[i] EXCEPT !.state.nextBlockIndex = shared]
             IN \E order \in PairOrders(f, h0, PairModels[i]) :
                   LET h == [h0 EXCEPT !.order = order]
                       n == Iteration(f, h, PairModels[i])
                   IN /\ pair' = [pair EXCEPT ![i] = [n.f EXCEPT !.fed = Append(@, h)]]
                      /\ now' = n.now
    /\ UNCHANGED <<impl, pc, req, sent, upstream, status, resp, w, streamVars>>

\* reframer i runs one iteration of its loop
PairStep(i) ==
    /\ pair[i].pc = "stream"
    /\ Len(pair[i].fed) < MaxPairReads
    /\ \E r \in PairReads :
          \E ticks \in TickSeqs(PairClockReads(pair[i], r, PairModels[i])) :
             LET h0 == [read |-> r, now |-> now, ticks |-> ticks, order |-> <<>>,
                        seq |-> Len(pair[1].fed) + Len(pair[2].fed)]
                 f == pair[i]
             IN \E order \in PairOrders(f, h0, PairModels[i]) :
                   LET h == [h0 EXCEPT !.order = order]
                       n == Iteration(f, h, PairModels[i])
                   IN /\ pair' = [pair EXCEPT ![i] = [n.f EXCEPT !.fed = Append(@, h)]]
                      /\ now' = n.now
    /\ UNCHANGED <<impl, pc, req, sent, upstream, status, resp, w, streamVars>>

\* both requests are streaming requests that main has answered 200 to
PairInit ==
    /\ Init
    /\ impl = "main"
    /\ req.stream

PairNext == \E i \in 1..2 : PairStep(i)

SpecPair == PairInit /\ [][PairNext]_vars

(***************************************************************************)
(* Properties of the emitted event sequence.                               *)
(***************************************************************************)
BlockEvents == {"content_block_start", "content_block_delta", "content_block_stop"}

EventNames == BlockEvents \cup {"message_start", "message_delta", "message_stop"}

\* the positions of w that hold an event of the given name
At(name) == { i \in 1..Len(w) : w[i].event = name }

\* the positions of w that hold an event of the given name for a block index
AtBlock(name, index) == { i \in At(name) : w[i].index = index }

\* the request is a streaming one that the reframer serves
Reframing == impl = "main" /\ req.stream /\ pc \in {"stream", "done"}

\* C1: the emitted events are well ordered: every delta and stop of a block
\* index comes after that index's content_block_start, every delta of an
\* index comes before its content_block_stop, message_start comes before
\* every content_block_* event, and nothing follows message_stop.
C1_EventsWellOrdered ==
    Reframing =>
        /\ \A j \in At("content_block_delta") \cup At("content_block_stop") :
              \E i \in AtBlock("content_block_start", w[j].index) : i < j
        /\ \A i \in At("content_block_delta") :
              \A j \in AtBlock("content_block_stop", w[i].index) : i < j
        /\ \A j \in 1..Len(w) :
              w[j].event \in BlockEvents => \E i \in At("message_start") : i < j
        /\ \A i \in At("message_stop") : i = Len(w)

\* a closed stream that had a text block with a delta and a tool block with
\* buffered arguments
C1_Witness ==
    /\ Reframing
    /\ At("message_stop") # {}
    /\ \E i \in At("content_block_delta") : w[i].type = "text_delta"
    /\ \E i \in At("content_block_delta") : w[i].type = "input_json_delta"

\* the blocks that were started and the blocks that were stopped
StartedIndices == { w[i].index : i \in At("content_block_start") }
StoppedIndices == { w[i].index : i \in At("content_block_stop") }

\* C2: when the stream ends without cancellation (by [DONE] or by the end of
\* the input) the closing phase has run once the reframer has returned: every
\* started block has its content_block_stop and message_stop was emitted.
\* The claim is stated for the streams that started a message, the ones
\* that have something to close.
C2_ClosingOnStreamEnd ==
    (Reframing /\ pc = "done" /\ ret \in {"nil", "EOF"} /\ At("message_start") # {}) =>
        /\ StartedIndices \subseteq StoppedIndices
        /\ At("message_stop") # {}

\* C3: a step in which the read fails with a non-EOF error writes nothing,
\* and the reframer that returned on it has written no content_block_stop,
\* no message_delta and no message_stop.
C3_NothingAfterCancel ==
    [][ret' = "error" =>
          /\ w' = w
          /\ At("content_block_stop") \cup At("message_delta") \cup At("message_stop") = {}]_vars

\* cancelled after message_start and an open block
C3_Witness ==
    /\ ret = "error"
    /\ At("message_start") # {}
    /\ At("content_block_start") # {}

\* the upstream tool-call positions that have a block
ToolPositions == DOMAIN state.toolBlocks

\* C4: block indices come from a counter that starts at 0 and only grows: the
\* k-th content_block_start carries index k-1, the counter equals the number
\* of blocks opened, and the text block and the tool blocks of the different
\* upstream positions all have different indices.
C4_IndicesIncreaseNeverReused ==
    Reframing =>
        LET starts == SelectSeq(w, LAMBDA e : e.event = "content_block_start")
        IN /\ \A k \in 1..Len(starts) : starts[k].index = k - 1
           /\ state.nextBlockIndex = Len(starts)
           /\ \A p, q \in ToolPositions :
                 p # q => state.toolBlocks[p].index # state.toolBlocks[q].index
           /\ \A p \in ToolPositions :
                 state.textBlockStarted => state.toolBlocks[p].index # state.textBlockIndex

\* a text block and two tool blocks were opened
C4_Witness ==
    /\ Reframing
    /\ state.textBlockStarted
    /\ Cardinality(ToolPositions) = 2
    /\ state.nextBlockIndex = 3

\* C5: content_block_start is emitted once per block: at most one text start
\* in a stream, and for every upstream tool-call position that has sent a
\* fragment exactly one tool_use start, which carries that position's index.
C5_StartOncePerBlock ==
    Reframing =>
        /\ Cardinality({ i \in At("content_block_start") : w[i].type = "text" }) <= 1
        /\ \A p \in ToolPositions :
              Cardinality({ i \in At("content_block_start") :
                              /\ w[i].type = "tool_use"
                              /\ w[i].index = state.toolBlocks[p].index }) = 1
        /\ Cardinality({ i \in At("content_block_start") : w[i].type = "tool_use" })
              = Cardinality(ToolPositions)

\* the reads so far that carried a fragment for the upstream position p
FragmentsFor(p) ==
    { i \in 1..Len(fed) :
        /\ fed[i].data.kind = "json"
        /\ \E c \in 1..Len(fed[i].data.chunk.choices) :
              \E t \in 1..Len(fed[i].data.chunk.choices[c].tool_calls) :
                 fed[i].data.chunk.choices[c].tool_calls[t].index = p }

\* text resumed after a tool-call delta, and one position got two fragments
C5_Witness ==
    /\ Reframing
    /\ \E i, j, k \in 1..Len(w) :
          /\ i < j /\ j < k
          /\ w[i].type = "text_delta"
          /\ w[j].type = "tool_use"
          /\ w[k].type = "text_delta"
    /\ \E p \in ToolPositions : Cardinality(FragmentsFor(p)) >= 2

\* the upstream stream read so far is text only: chunks that each carry one
\* non-empty text fragment and nothing else, the first with id and model, the
\* last with finish_reason "stop", and then the [DONE] marker
TextOnlyStream ==
    /\ Len(fed) >= 2
    /\ fed[Len(fed)].data.kind = "done"
    /\ \A i \in 1..(Len(fed) - 1) :
          /\ fed[i].err = "nil"
          /\ fed[i].data.kind = "json"
          /\ ~fed[i].data.chunk.usage.present
          /\ Len(fed[i].data.chunk.choices) = 1
          /\ fed[i].data.chunk.choices[1].content # <<>>
          /\ fed[i].data.chunk.choices[1].tool_calls = <<>>
    /\ fed[1].data.chunk.id # ""
    /\ fed[1].data.chunk.model # ""
    /\ fed[Len(fed) - 1].data.chunk.choices[1].finish_reason = "stop"

\* the events the text-only stream must give
TextOnlyEvents ==
    << MessageStart(fed[1].data.chunk.id, fed[1].data.chunk.model), TextBlockStart(0) >>
    \o [i \in 1..(Len(fed) - 1) |-> TextDelta(0, fed[i].data.chunk.choices[1].content)]
    \o << BlockStop(0), MessageDelta("end_turn", 0, 0), MessageStop >>

\* C6: for a text-only stream ended by [DONE] the reframer writes exactly
\* message_start (id and model of the first chunk), content_block_start
\* (index 0, text), one text delta per fragment in arrival order,
\* content_block_stop (index 0), message_delta (end_turn), message_stop.
C6_TextOnlyStreamEvents ==
    (Reframing /\ pc = "done" /\ ret = "nil" /\ TextOnlyStream) => w = TextOnlyEvents

\* a text-only stream of three fragments was reframed
C6_Witness ==
    /\ Reframing
    /\ pc = "done"
    /\ ret = "nil"
    /\ TextOnlyStream
    /\ Len(fed) = 4
    /\ Len(w) = 8

\* C7: a streaming typed-block request whose upstream call returned a 2xx
\* status is answered with typed-block events only: everything written has
\* one of the six event names, and no upstream chunk is forwarded as it came.
C7_TypedBlockEventsOnly ==
    (req.stream /\ ~upstream.err /\ upstream.status >= 200 /\ upstream.status <= 299) =>
        \A i \in 1..Len(w) : w[i].event \in EventNames /\ w[i].raw = <<>>

\* the reference table of the stop reason
StopReasonTable ==
    { <<"length", TRUE, "max_tokens">>, <<"length", FALSE, "max_tokens">>,
      <<"stop", TRUE, "end_turn">>, <<"stop", FALSE, "end_turn">>,
      <<"tool_calls", TRUE, "tool_use">>, <<"tool_calls", FALSE, "tool_use">>,
      <<"function_call", TRUE, "tool_use">>, <<"function_call", FALSE, "tool_use">>,
      <<"content_filter", TRUE, "tool_use">>, <<"content_filter", FALSE, "end_turn">>,
      <<"", TRUE, "tool_use">>, <<"", FALSE, "end_turn">> }

\* the first choice of the upstream's completed response
FirstChoice == upstream.body.choices[1]

\* the hasToolCalls the non-streaming handler passes to the mapping
ResponseHasToolCalls ==
    FirstChoice.message.tool_calls # <<>> \/ FirstChoice.message.function_call.present

\* C8: the stop reason computed from a finish reason and hasToolCalls is the
\* one of the reference table, in the translated response and in the
\* message_delta of a stream.
C8_StopReasonTable ==
    /\ resp.kind = "message" =>
          <<FirstChoice.finish_reason, ResponseHasToolCalls, resp.stop_reason>>
             \in StopReasonTable
    /\ Reframing =>
          \A i \in At("message_delta") :
             <<lastFinishReason, hasToolCalls, w[i].stop_reason>> \in StopReasonTable

\* a response with tool calls whose finish reason is "length"
C8_Witness ==
    /\ resp.kind = "message"
    /\ FirstChoice.finish_reason = "length"
    /\ ResponseHasToolCalls
    /\ resp.stop_reason = "max_tokens"

\* a tool call was emitted: a tool_use block in the translated response, or
\* a tool_use content_block_start in the stream
ToolCallEmitted ==
    \/ /\ resp.kind = "message"
       /\ \E k \in 1..Len(resp.content) : resp.content[k].type = "tool_use"
    \/ /\ Reframing
       /\ \E i \in At("content_block_start") : w[i].type = "tool_use"

\* the stop reason and the finish reason of the answer, when it has them
StopReasonIs(reasons, stop) ==
    /\ resp.kind = "message" =>
          (FirstChoice.finish_reason \in reasons \/ resp.stop_reason = stop)
    /\ Reframing =>
          \A i \in At("message_delta") :
             (lastFinishReason \in reasons \/ w[i].stop_reason = stop)

\* C9 as stated: when a tool call was emitted the stop reason is tool_use
\* for every finish reason except "stop".
C9_ToolUseUnlessStop == ToolCallEmitted => StopReasonIs({"stop"}, "tool_use")

\* C9, amended: when a tool call was emitted the stop reason is tool_use for
\* every finish reason except "stop" and "length".
C9_ToolUseUnlessStopOrLength ==
    ToolCallEmitted => StopReasonIs({"stop", "length"}, "tool_use")

\* a legacy function_call was translated to a tool_use block and the finish
\* reason is none of the four the mapping knows
C9_Witness ==
    /\ resp.kind = "message"
    /\ \E k \in 1..Len(resp.content) : resp.content[k].type = "tool_use"
    /\ FirstChoice.message.tool_calls = <<>>
    /\ FirstChoice.finish_reason = "content_filter"
    /\ resp.stop_reason = "tool_use"

\* C10: a read whose data json.Unmarshal rejects writes nothing and leaves
\* the reframer's state as it was (stream state, last finish reason,
\* hasToolCalls, clock), and the loop goes on.
C10_InvalidChunkSkipped ==
    [][(fed' # fed /\ fed'[Len(fed')].data.kind = "bad") =>
          UNCHANGED <<w, state, lastFinishReason, hasToolCalls, now, pc, ret>>]_vars

\* a malformed chunk came after the message had started, and a chunk after
\* it was processed
C10_Witness ==
    /\ Reframing
    /\ \E i \in 2..(Len(fed) - 1) :
          /\ fed[i].data.kind = "bad"
          /\ fed[i - 1].data.kind = "json"
          /\ fed[i + 1].data.kind = "json"
    /\ At("content_block_delta") # {}

(***************************************************************************)
(* Properties of the handlers.                                             *)
(***************************************************************************)
\* the handler has translated the typed-block request and called the upstream
Translated == sent.called /\ sent.path = ChatPath /\ sent.payload # NoPayload

\* the upstream answered the call with a status outside 200-299
UpstreamError ==
    Translated /\ ~upstream.err /\ upstream # NoReply
    /\ (upstream.status < 200 \/ upstream.status > 299)

\* C11: when the upstream answers a translated typed-block request with a
\* status outside 200-299, the caller receives that same status code and the
\* same body, and the response translator is not run on the body.  (The gin
\* handler of a non-streaming request answers 200.)
C11_UpstreamErrorPassedThrough ==
    (pc = "done" /\ req.has_messages /\ UpstreamError) =>
        /\ status = upstream.status
        /\ resp.kind = "upstream"
        /\ resp.upstream = upstream.body
        /\ resp.content = <<>>

\* C12: a typed-block request whose body parses but whose message list is
\* absent is rejected with a client-input error (a 4xx status), and no
\* upstream call is made for it.  (Both handlers forward it with an empty
\* message list.)
C12_AbsentMessagesRejected ==
    (pc = "done" /\ MessagesRouted /\ req.method = "POST"
        /\ req.parses /\ ~req.has_messages) =>
        /\ status \in 400..499
        /\ ~sent.called

\* the upstream answered 2xx with a body that decodes
UpstreamAnswered ==
    Translated /\ ~upstream.err /\ upstream.valid /\ upstream.status \in 200..299

\* C13: a 2xx upstream response that has no choices, or whose first choice
\* has no message, always ends the call with a gateway-side error (502): no
\* typed-block response is produced for it and no content blocks are built.
C13_NoChoicesIsGatewayError ==
    (pc = "done" /\ ~req.stream /\ UpstreamAnswered
        /\ (\/ upstream.body.choices = <<>>
            \/ ~upstream.body.choices[1].message.present)) =>
        /\ status = 502
        /\ resp.kind = "error"
        /\ resp.content = <<>>

\* a first choice without message was answered with the gateway error
C13_Witness ==
    /\ pc = "done"
    /\ UpstreamAnswered
    /\ upstream.body.choices # <<>>
    /\ ~upstream.body.choices[1].message.present
    /\ status = 502

(***************************************************************************)
(* Properties of the request translator.                                   *)
(***************************************************************************)
\* the request holds one message, and the handler has translated it
OneMessage == pc = "done" /\ Translated /\ Len(req.messages) = 1

\* the flat messages sent for the message list (the system message, which
\* comes first, is left out)
SentForMessages ==
    LET all == sent.payload.messages
    IN IF all # <<>> /\ all[1].role = "system" THEN Tail(all) ELSE all

\* the blocks of a message's content
BlocksOf(msg) ==
    IF msg.content.kind \in {"array", "map"} THEN msg.content.parts ELSE <<>>

ToolResultsOnly(msg) ==
    /\ BlocksOf(msg) # <<>>
    /\ \A i \in DOMAIN BlocksOf(msg) : BlocksOf(msg)[i].type = "tool_result"

\* C14: ConvertAnthropicMessage on a message whose content holds only
\* tool_result blocks yields no main message and exactly one role "tool"
\* message per tool_result block, in the original block order, each carrying
\* that block's tool_use_id as tool_call_id.
C14_ToolResultsOnly ==
    (OneMessage /\ ToolResultsOnly(req.messages[1])) =>
        LET blocks == BlocksOf(req.messages[1])
        IN /\ Len(SentForMessages) = Len(blocks)
           /\ \A i \in DOMAIN blocks :
                 /\ SentForMessages[i].role = "tool"
                 /\ SentForMessages[i].tool_call_id = blocks[i].tool_use_id
                 /\ SentForMessages[i].tool_calls = <<>>

\* two tool results with different ids were translated
C14_Witness ==
    /\ OneMessage
    /\ ToolResultsOnly(req.messages[1])
    /\ Len(BlocksOf(req.messages[1])) = 2
    /\ BlocksOf(req.messages[1])[1].tool_use_id # BlocksOf(req.messages[1])[2].tool_use_id
    /\ Len(SentForMessages) = 2

\* the content is absent, an empty array or the empty string
NoContentAtAll(msg) ==
    \/ msg.content.kind = "nil"
    \/ msg.content.kind = "array" /\ msg.content.parts = <<>>
    \/ msg.content.kind = "string" /\ msg.content.text = <<>>

\* C15: ConvertAnthropicMessage on a message with no content at all (no
\* text, no tool_use, no tool_result) yields exactly one flat message, with
\* the same role and content equal to the empty string.
C15_EmptyMessageKept ==
    (OneMessage /\ NoContentAtAll(req.messages[1])) =>
        /\ Len(SentForMessages) = 1
        /\ SentForMessages[1].role = req.messages[1].role
        /\ SentForMessages[1].content = <<>>
        /\ SentForMessages[1].tool_calls = <<>>
        /\ SentForMessages[1].tool_call_id = ""

\* an assistant message with an empty block array was translated
C15_Witness ==
    /\ OneMessage
    /\ req.messages[1].role = "assistant"
    /\ req.messages[1].content.kind = "array"
    /\ NoContentAtAll(req.messages[1])
    /\ Len(SentForMessages) = 1

KnownBlockTypes == {"text", "tool_use", "tool_result"}

RECURSIVE KnownBlocks(_)
\* the blocks of a known type, in order
KnownBlocks(blocks) ==
    IF blocks = <<>> THEN <<>>
    ELSE (IF Head(blocks).type \in KnownBlockTypes THEN <<Head(blocks)>> ELSE <<>>)
            \o KnownBlocks(Tail(blocks))

\* the content without its blocks of other types
WithoutOtherBlocks(content) ==
    CASE content.kind = "array" -> ArrayContent(KnownBlocks(content.parts))
      [] content.kind = "map" ->
           IF content.parts[1].type \in KnownBlockTypes THEN content ELSE NilContent
      [] OTHER -> content

\* role and content of each flat message
RolesAndContents(messages) ==
    [i \in DOMAIN messages |-> <<messages[i].role, messages[i].content>>]

\* C16: content blocks whose type is none of text, tool_use and tool_result
\* (an image block, also one that carries a text field) contribute nothing to
\* the flat request: it has the messages, with the contents, of the request
\* without these blocks.  (The text field of such a block is taken as text.)
C16_OtherBlocksIgnored ==
    (pc = "done" /\ Translated /\ ~req.stream) =>
        RolesAndContents(sent.payload.messages) =
            RolesAndContents(
                ConvertAnthropicToOpenAIMessages(
                    WithoutOtherBlocks(req.system),
                    [i \in DOMAIN req.messages |->
                        [req.messages[i] EXCEPT !.content = WithoutOtherBlocks(@)]],
                    0, [i \in 1..CountBlocks(req.messages) |-> 0]).messages)

(***************************************************************************)
(* Round trips through both translators.                                   *)
(***************************************************************************)
\* the handler has answered with a translated response
Answered == pc = "done" /\ ~req.stream /\ UpstreamAnswered /\ resp.kind = "message"

IsBlank(s) == \A i \in DOMAIN s : IsSpace(s[i])

\* the text is not JSON: without the white space around it, it is none of the
\* JSON texts of the model
NotJSON(r) == TrimSpace(r) \notin JSONTexts

IsKeptCall(call) == ~(call.name \in {"", " "} /\ IsBlank(call.arguments))

\* the calls of the upstream message that the response translator does not
\* skip: tool calls, then the legacy function call
KeptCalls ==
    LET message == upstream.body.choices[1].message
        fc == message.function_call
    IN SelectSeq(message.tool_calls, IsKeptCall)
          \o (IF fc.present /\ IsKeptCall(fc) THEN <<fc>> ELSE <<>>)

IsToolUse(block) == block.type = "tool_use"

\* the tool_use blocks of the response written to the caller
ToolUseBlocks == SelectSeq(resp.content, IsToolUse)

\* the tool_use blocks of the request's only message, and the flat tool calls
\* sent for them
ToolUseParts == SelectSeq(BlocksOf(req.messages[1]), IsToolUse)

SentToolCalls ==
    IF SentForMessages = <<>> THEN <<>> ELSE SentForMessages[1].tool_calls

RECURSIVE ReadJSONString(_)
\* a JSON decoder reading the characters of a string after its opening
\* quote: the decoded text and what follows the closing quote
ReadJSONString(s) ==
    IF s = <<>> THEN [ok |-> FALSE, text |-> <<>>, rest |-> <<>>]
    ELSE IF Head(s) = "\"" THEN [ok |-> TRUE, text |-> <<>>, rest |-> Tail(s)]
    ELSE IF Head(s) \in {"\n", "\r", "\t"}
    THEN [ok |-> FALSE, text |-> <<>>, rest |-> <<>>]
    ELSE IF Head(s) = "\\"
    THEN IF Len(s) < 2 \/ s[2] \notin {"\"", "\\", "n", "r", "t"}
         THEN [ok |-> FALSE, text |-> <<>>, rest |-> <<>>]
         ELSE LET c == CASE s[2] = "n" -> "\n"
                         [] s[2] = "r" -> "\r"
                         [] s[2] = "t" -> "\t"
                         [] OTHER -> s[2]
                  r == ReadJSONString(Tail(Tail(s)))
              IN [r EXCEPT !.text = <<c>> \o @]
    ELSE LET r == ReadJSONString(Tail(s))
         IN [r EXCEPT !.text = <<Head(s)>> \o @]

\* the texts r of which the argument text is the serialization of
\* {"arguments": r}: one text, or none
Recovered(args) ==
    LET open == <<"{">> \o ArgumentsKey \o <<"\"">>
    IN IF Len(args) > Len(open) /\ SubSeq(args, 1, Len(open)) = open
       THEN LET r == ReadJSONString(SubSeq(args, Len(open) + 1, Len(args)))
            IN IF r.ok /\ r.rest = <<"}">> THEN {r.text} ELSE {}
       ELSE {}

\* raw argument text of the kind given survives both adapters: the response
\* translator gives the tool_use block the input {"arguments": r}, and the
\* request translator turns a tool_use block with such an input into the
\* serialization of {"arguments": r}, from which r is read back
RawArgumentsSurvive(Applies(_)) ==
    /\ Answered =>
          /\ Len(ToolUseBlocks) = Len(KeptCalls)
          /\ \A i \in DOMAIN KeptCalls :
                Applies(KeptCalls[i].arguments) =>
                    ToolUseBlocks[i].input = WrappedArguments(KeptCalls[i].arguments)
    /\ OneMessage =>
          /\ Len(SentToolCalls) = Len(ToolUseParts)
          /\ \A i \in DOMAIN ToolUseParts :
                ToolUseParts[i].input.kind = "wrapped" =>
                    Recovered(SentToolCalls[i].arguments) = {ToolUseParts[i].input.text}

\* C17 as stated: tool-call argument text r that is not valid JSON survives
\* both adapters without loss: ParseToolCallArgs(r) is {"arguments": r}, and
\* a tool_use block with that input is converted to the JSON serialization of
\* {"arguments": r}, from which r is recovered unchanged.  (Blank text does
\* not parse either, and becomes {}.)
C17_RawArgumentsSurvive == RawArgumentsSurvive(NotJSON)

NotJSONNotBlank(r) == NotJSON(r) /\ ~IsBlank(r)

\* C17, amended: argument text r that is not valid JSON and not blank
\* survives both adapters without loss, as stated.
C17_NonBlankRawArgumentsSurvive == RawArgumentsSurvive(NotJSONNotBlank)

\* the upstream's call carried raw text with a quote and a line feed, the
\* caller was given the fallback object for it, and the request holds a
\* tool_use block with that same input, sent on as its serialization
C17_Witness ==
    /\ Answered
    /\ OneMessage
    /\ \E i \in DOMAIN KeptCalls, j \in DOMAIN ToolUseParts :
          /\ NotJSONNotBlank(KeptCalls[i].arguments)
          /\ \E k \in DOMAIN KeptCalls[i].arguments : KeptCalls[i].arguments[k] = "\""
          /\ ToolUseBlocks[i].input = ToolUseParts[j].input
          /\ Recovered(SentToolCalls[j].arguments) = {KeptCalls[i].arguments}

\* the message has only text content: a string, or text blocks only
TextOnly(msg) ==
    \/ msg.content.kind = "string"
    \/ /\ BlocksOf(msg) # <<>>
       /\ \A i \in DOMAIN BlocksOf(msg) : BlocksOf(msg)[i].type = "text"

\* the text parts of a text-only message, in order
OriginalTextParts(msg) ==
    IF msg.content.kind = "string" THEN << msg.content.text >>
    ELSE [i \in DOMAIN BlocksOf(msg) |-> BlocksOf(msg)[i].text]

IsTextBlock(block) == block.type = "text"

\* the text of the blocks of the response written to the caller
ResultText ==
    LET blocks == SelectSeq(resp.content, IsTextBlock)
    IN Join([i \in DOMAIN blocks |-> blocks[i].text], <<"\n">>)

\* the upstream answered with the flat message made of the request's only
\* message, which has only text content, and the answer was translated
TextEchoed ==
    /\ Answered
    /\ OneMessage
    /\ TextOnly(req.messages[1])
    /\ upstream.body.id = "echo"

\* C18 as stated: for a typed-block message with only text content, the
\* request translator, the flat message taken as the upstream's response
\* message, and the response translator yield blocks whose text equals the
\* original text parts joined in order (by line feeds).  (Blank parts are
\* left out on the way.)
C18_TextRoundTrip ==
    TextEchoed => ResultText = Join(OriginalTextParts(req.messages[1]), <<"\n">>)

NotBlank(text) == ~IsBlank(text)

\* C18, amended: the text of the resulting blocks equals the original text
\* parts that are not blank, joined in order by line feeds.
C18_NonBlankTextRoundTrip ==
    TextEchoed =>
        /\ \A i \in DOMAIN resp.content : resp.content[i].type = "text"
        /\ ResultText =
              Join(SelectSeq(OriginalTextParts(req.messages[1]), NotBlank), <<"\n">>)

\* a message of three text parts, the second blank, went round
C18_Witness ==
    /\ TextEchoed
    /\ Len(OriginalTextParts(req.messages[1])) = 3
    /\ IsBlank(OriginalTextParts(req.messages[1])[2])
    /\ ResultText = <<"a", "\n", "b">>

(***************************************************************************)
(* Properties of the routing.                                              *)
(***************************************************************************)
\* a path /v1/... other than /v1/chat/completions and /v1/messages
OtherV1Path(path) ==
    /\ Len(path) >= 2
    /\ path[1] = "v1"
    /\ path \notin {ChatPath, MessagesPath}

\* C19: every request to a /v1/* path other than /v1/chat/completions and
\* /v1/messages (for example POST /v1/responses) is forwarded to the
\* configured upstream with its method and body unchanged, and is never
\* answered locally with 404.  (The gin router has no route for such a path:
\* its NoRoute handler answers 404.)
C19_OtherV1PathsForwarded ==
    (pc = "done" /\ OtherV1Path(req.path)) =>
        /\ sent.called
        /\ sent.method = req.method
        /\ sent.path = req.path
        /\ sent.raw = req.raw
        /\ ~(status = 404 /\ upstream = NoReply)

(***************************************************************************)
(* Properties of two reframers running at the same time.                   *)
(***************************************************************************)
RECURSIVE RunAlone(_, _)
\* the reframer that has run alone the iterations given, with nothing
\* running in between
RunAlone(given, fallbackModel) ==
    IF given = <<>> THEN IdleReframer
    ELSE LET before == RunAlone(SubSeq(given, 1, Len(given) - 1), fallbackModel)
         IN [Iteration(before, given[Len(given)], fallbackModel).f EXCEPT !.fed = given]

GeneratedIDs == { generateToolCallID(t) : t \in 0..MaxClock }

\* the ids of s, a sequence of records with an id, that were generated
GeneratedAt(s) == { i \in DOMAIN s : s[i].id \in GeneratedIDs }

\* C21: the generated tool-call ids of one translated response and of one
\* stream all differ: no two tool_use blocks of a response and no two tool
\* blocks of a stream carry the same generated id.
C21_GeneratedIdsUnique ==
    /\ resp.kind = "message" =>
          \A i, j \in GeneratedAt(resp.content) :
             i # j => resp.content[i].id # resp.content[j].id
    /\ Reframing =>
          \A p, q \in GeneratedAt(state.toolBlocks) :
             p # q => state.toolBlocks[p].id # state.toolBlocks[q].id

\* the reads so far whose data was a chunk that the loop processed
Processed == { i \in 1..Len(fed) : fed[i].err # "error" /\ fed[i].data.kind = "json" }

\* the finish reasons of the choices of a chunk, in order
FinishReasonsOf(chunk) ==
    LET given == SelectSeq(chunk.choices, LAMBDA c : c.finish_reason # nil)
    IN [k \in 1..Len(given) |-> given[k].finish_reason]

\* the processed reads that carried a finish reason
WithFinishReason == { i \in Processed : FinishReasonsOf(fed[i].data.chunk) # <<>> }

\* the last finish reason of the last chunk that carried one
LastFinishReasonSeen ==
    LET i == CHOOSE k \in WithFinishReason : \A l \in WithFinishReason : l <= k
        reasons == FinishReasonsOf(fed[i].data.chunk)
    IN reasons[Len(reasons)]

\* a processed chunk carried a tool-call fragment
ToolCallSeen ==
    \E i \in Processed : CountCalls(fed[i].data.chunk.choices) > 0

\* C22: message_delta is written in the closing phase only, and there if and
\* only if a chunk carried a finish reason; it is written once, after every
\* content_block_stop and immediately before message_stop, and its stop
\* reason is the mapping of the last finish reason seen.
C22_MessageDeltaIffFinishReason ==
    Reframing =>
        /\ At("message_stop") = {} => At("message_delta") = {}
        /\ At("message_stop") # {} =>
              /\ At("message_delta") # {} <=> WithFinishReason # {}
              /\ Cardinality(At("message_delta")) <= 1
              /\ \A d \in At("message_delta") :
                    /\ d = Len(w) - 1
                    /\ w[d + 1].event = "message_stop"
                    /\ \A s \in At("content_block_stop") : s < d
                    /\ w[d].stop_reason = MapStopReason(LastFinishReasonSeen, ToolCallSeen)

\* a closed stream in which two chunks carried different finish reasons, a
\* tool block was closed, and the later reason decided the stop reason
C22_Witness ==
    /\ Reframing
    /\ At("message_stop") # {}
    /\ \E i, j \in WithFinishReason :
          /\ i < j
          /\ FinishReasonsOf(fed[i].data.chunk) = <<"stop">>
          /\ FinishReasonsOf(fed[j].data.chunk) = <<"length">>
    /\ ToolCallSeen
    /\ \E d \in At("message_delta") : w[d].stop_reason = "max_tokens"

RECURSIVE CallArguments(_, _)
\* the argument fragments for the upstream position p among calls, joined
CallArguments(calls, p) ==
    IF calls = <<>> THEN <<>>
    ELSE (IF Head(calls).index = p THEN Head(calls).arguments ELSE <<>>)
            \o CallArguments(Tail(calls), p)

RECURSIVE ChoiceArguments(_, _)
ChoiceArguments(choices, p) ==
    IF choices = <<>> THEN <<>>
    ELSE CallArguments(Head(choices).tool_calls, p) \o ChoiceArguments(Tail(choices), p)

RECURSIVE ReceivedArguments(_, _)
\* the concatenation, in arrival order, of the argument fragments that the
\* processed reads carried for the upstream position p
ReceivedArguments(reads, p) ==
    IF reads = <<>> THEN <<>>
    ELSE (IF Head(reads).err # "error" /\ Head(reads).data.kind = "json"
          THEN ChoiceArguments(Head(reads).data.chunk.choices, p)
          ELSE <<>>) \o ReceivedArguments(Tail(reads), p)

\* the input_json_delta events, and those of a block index
InputDeltas == { i \in At("content_block_delta") : w[i].type = "input_json_delta" }
InputDeltasOf(index) == { i \in InputDeltas : w[i].index = index }

\* arguments are delivered once: no input_json_delta before the closing
\* phase; after it, every tool block whose buffer Delivered(buffer) is not
\* empty has one input_json_delta, before its content_block_stop, that
\* carries Delivered(buffer), and every other tool block has none
ArgumentsDeliveredOnce(Delivered(_)) ==
    Reframing =>
        /\ At("message_stop") = {} => InputDeltas = {}
        /\ At("message_stop") # {} =>
              \A p \in ToolPositions :
                 LET index == state.toolBlocks[p].index
                     buffer == ReceivedArguments(fed, p)
                 IN IF Delivered(buffer) # <<>>
                    THEN /\ Cardinality(InputDeltasOf(index)) = 1
                         /\ \A i \in InputDeltasOf(index) :
                               /\ w[i].text = Delivered(buffer)
                               /\ \E j \in AtBlock("content_block_stop", index) : i < j
                    ELSE InputDeltasOf(index) = {}

WholeBuffer(buffer) == buffer

\* C23 as stated: the one input_json_delta of a tool block carries the full
\* argument buffer, and a block gets it whenever the buffer is not empty.
C23_ArgumentsBufferedWhole == ArgumentsDeliveredOnce(WholeBuffer)

\* C23, amended: the one input_json_delta of a tool block carries the
\* argument buffer without its leading and trailing white space, and a
\* block gets it whenever the buffer is not blank.
C23_ArgumentsBufferedTrimmed == ArgumentsDeliveredOnce(TrimSpace)

\* a closed stream in which one position got two fragments, delivered as one
\* text, and another position's buffer ended in white space
C23_Witness ==
    /\ Reframing
    /\ At("message_stop") # {}
    /\ \E p \in ToolPositions :
          /\ Cardinality(FragmentsFor(p)) >= 2
          /\ Len(ReceivedArguments(fed, p)) = 4
          /\ \E i \in InputDeltasOf(state.toolBlocks[p].index) : Len(w[i].text) = 4
    /\ \E p \in ToolPositions :
          /\ TrimSpace(ReceivedArguments(fed, p)) # ReceivedArguments(fed, p)
          /\ InputDeltasOf(state.toolBlocks[p].index) # {}

\* the system prompt holds no text but white space
BlankSystem(system) ==
    \/ system.kind = "nil"
    \/ system.kind = "string" /\ TrimSpace(system.text) = <<>>
    \/ /\ system.kind = "array"
       /\ \A i \in DOMAIN system.parts :
             system.parts[i].type = "text" => TrimSpace(system.parts[i].text) = <<>>

\* the tool_use_id of the tool_result blocks of a message, in block order
ToolResultIDs(msg) ==
    LET results == SelectSeq(BlocksOf(msg), LAMBDA b : b.type = "tool_result")
    IN [k \in 1..Len(results) |-> results[k].tool_use_id]

\* flat is what one message gives: at most one main message with the role of
\* the message, and after it one role "tool" message per tool_result block,
\* in block order
SegmentOf(flat, msg) ==
    LET ids == ToolResultIDs(msg)
        main == Len(flat) - Len(ids)
    IN /\ main \in {0, 1}
       /\ main = 1 => flat[1].role = msg.role /\ flat[1].tool_call_id = ""
       /\ \A k \in 1..Len(ids) :
             /\ flat[main + k].role = "tool"
             /\ flat[main + k].tool_call_id = ids[k]

\* C24: the flat message list keeps the order: a system prompt that is not
\* blank gives the first message and the only one with role system, a blank
\* one gives none; after it the list is, for the messages of the request in
\* order, the main message if any and then the message's tool results in
\* block order.
C24_OrderPreserved ==
    Translated =>
        LET flat == sent.payload.messages
            rest == SentForMessages
            n == Len(req.messages)
        IN /\ \A i \in DOMAIN flat :
                 flat[i].role = "system" <=> (i = 1 /\ ~BlankSystem(req.system))
           /\ \E start \in [1..(n + 1) -> 1..(Len(rest) + 1)] :
                 /\ start[1] = 1
                 /\ start[n + 1] = Len(rest) + 1
                 /\ \A i \in 1..n :
                       /\ start[i] <= start[i + 1]
                       /\ SegmentOf(SubSeq(rest, start[i], start[i + 1] - 1),
                                    req.messages[i])

\* a request with a system prompt and two messages, the second with a
\* tool_result block in front of a text block, was translated
C24_Witness ==
    /\ Translated
    /\ ~BlankSystem(req.system)
    /\ Len(req.messages) = 2
    /\ BlocksOf(req.messages[2])[1].type = "tool_result"
    /\ BlocksOf(req.messages[2])[2].type = "text"
    /\ Len(sent.payload.messages) = 4
    /\ sent.payload.messages[4].role = "tool"

(***************************************************************************)
(* Properties of the translated response.                                  *)
(***************************************************************************)
\* the content of an upstream message holds text that is not blank
HasText(content) ==
    \/ content.kind = "string" /\ ~IsBlank(content.text)
    \/ /\ content.kind = "array"
       /\ \E i \in DOMAIN content.parts :
             content.parts[i].type = "text" /\ ~IsBlank(content.parts[i].text)

\* C25: the content of a translated response is never empty and its blocks
\* come in a fixed order: one text block first if the message's text is not
\* blank, then one tool_use block per tool call that is not skipped, in call
\* order, then one for a legacy function_call that is not empty; a message
\* that gives none of these gives exactly one text block with empty text.
C25_BlockOrder ==
    resp.kind = "message" =>
        LET texts == IF HasText(FirstChoice.message.content) THEN 1 ELSE 0
            kept == KeptCalls
        IN /\ resp.content # <<>>
           /\ IF texts + Len(kept) = 0
              THEN resp.content = << TextBlock(<<>>) >>
              ELSE /\ Len(resp.content) = texts + Len(kept)
                   /\ texts = 1 =>
                         /\ resp.content[1].type = "text"
                         /\ ~IsBlank(resp.content[1].text)
                   /\ \A k \in 1..Len(kept) :
                         /\ resp.content[texts + k].type = "tool_use"
                         /\ resp.content[texts + k].name = TrimName(kept[k].name)
                         /\ resp.content[texts + k].id # ""

\* a message with text, a skipped tool call, a kept tool call and a legacy
\* function_call was translated
C25_Witness ==
    /\ resp.kind = "message"
    /\ HasText(FirstChoice.message.content)
    /\ Len(FirstChoice.message.tool_calls) = 2
    /\ FirstChoice.message.function_call.present
    /\ Len(resp.content) = 3
    /\ resp.content[2].name = "f"
    /\ resp.content[3].name = "h"

\* C26: for a finish reason that is none of length, stop, tool_calls and
\* function_call, the stop reason of a translated response is tool_use if
\* its content holds a tool_use block, and end_turn if it holds none.
C26_ToolUseIffBlockProduced ==
    (resp.kind = "message"
       /\ FirstChoice.finish_reason \notin {"length", "stop", "tool_calls", "function_call"}) =>
        resp.stop_reason = (IF ToolUseBlocks # <<>> THEN "tool_use" ELSE "end_turn")

(***************************************************************************)
(* Properties of the request sent to the upstream.                         *)
(***************************************************************************)
\* the field of the payload is the field of the request: both absent, or
\* both present with the same value
PassedOn(sentField, given) ==
    /\ sentField.present <=> given.present
    /\ given.present => (sentField.present /\ sentField.value = given.value)

\* the tools of the request that have a name
NamedTools(tools) == SelectSeq(tools, LAMBDA t : t.name \notin {"", " "})

\* C27: the request sent for a typed-block request, streaming or not,
\* carries max_tokens iff the request's value is > 0, temperature, top_p
\* and top_k iff the request sets them, each with the request's value, stop
\* iff stop_sequences is not empty, tools iff a tool of the request has a
\* name, tool_choice iff the request has one, and stream_options iff the
\* request is a streaming one.
C27_OptionalParameters ==
    Translated =>
        LET o == req.options
            q == sent.payload
        IN /\ q.max_tokens.present <=> o.max_tokens > 0
           /\ q.max_tokens.present => q.max_tokens.value = o.max_tokens
           /\ PassedOn(q.temperature, o.temperature)
           /\ PassedOn(q.top_p, o.top_p)
           /\ PassedOn(q.top_k, o.top_k)
           /\ q.stop.present <=> o.stop_sequences # <<>>
           /\ q.stop.present => q.stop.value = o.stop_sequences
           /\ q.tools.present <=> NamedTools(o.tools) # <<>>
           /\ q.tool_choice.present <=> o.tool_choice.present
           /\ q.stream_options.present <=> req.stream
           /\ q.stream = req.stream

(***************************************************************************)
(* Further properties of the emitted event sequence.                       *)
(***************************************************************************)
\* C28: the closing events (content_block_stop, message_delta, message_stop)
\* are written only after a message_start: a stream that ends before a chunk
\* was processed gives no message_stop.
C28_StopOnlyAfterStart ==
    Reframing =>
        \A j \in At("content_block_stop") \cup At("message_delta") \cup At("message_stop") :
           \E i \in At("message_start") : i < j

\* the block indices of the tool blocks
ToolIndices == { state.toolBlocks[p].index : p \in ToolPositions }

\* C29: the reframer's output is fixed by its input: in particular the tool
\* blocks that are open when the stream ends are closed in increasing order
\* of their block index, so that of two content_block_stop events of tool
\* blocks the earlier has the smaller index.
C29_ClosingInIndexOrder ==
    Reframing =>
        \A i, j \in At("content_block_stop") :
           (i < j /\ w[i].index \in ToolIndices /\ w[j].index \in ToolIndices) =>
              w[i].index < w[j].index

(***************************************************************************)
(* Properties of the routes below an alias.                                *)
(***************************************************************************)
\* the first segment of the path names an alias, and the configuration has
\* no such alias (/v1/... and /healthz are the routes without alias)
UnknownAliasAddressed ==
    /\ impl = "usecase"
    /\ req.path # <<>>
    /\ req.path[1] \notin Aliases \cup {"v1", "healthz"}

\* C30: a request addressed to an alias that the configuration does not hold
\* is never forwarded: no upstream call is made for it, and it is answered
\* with 404.
C30_UnknownAliasNotForwarded ==
    UnknownAliasAddressed =>
        /\ ~sent.called
        /\ pc = "done" => status = 404

====
